---- MODULE Spec2Model ----
(***************************************************************************)
(* The flash command-sequencing engine of gice (package gice, type Flash): *)
(* chip-select bracketed SPI transactions, chunked Read, streamed Write,   *)
(* Erase planning and BusyWait polling, together with the serial NOR       *)
(* flash chip and the reader the engine talks to.                          *)
(*                                                                         *)
(* The engine is sequential Go code.  Its control state is a call stack of *)
(* labels (the head is the statement executed next); `ret` is the error    *)
(* value the most recent call returned.  One action models one statement   *)
(* group between two calls.                                                *)
(*                                                                         *)
(* Byte buffers are kept run-length encoded.  A run [k, a, n] stands for n *)
(* bytes: k = "lit" is the byte value a repeated n times, k = "mem" is the *)
(* contents of the flash addresses a .. a+n-1, k = "src" is the bytes at   *)
(* the positions a .. a+n-1 of the stream a reader delivers.  Two buffers  *)
(* in normal form are equal exactly when they hold the same bytes for      *)
(* every flash contents and every stream.                                  *)
(*                                                                         *)
(* Durations are in microseconds.                                          *)
(***************************************************************************)
EXTENDS Integers, Sequences, FiniteSets, TLC

(***************************************************************************)
(* Bounds of the model.                                                    *)
(***************************************************************************)
MaxChunks == 2      \* Read lengths reach MaxChunks full transactions (+1 byte)
MaxSectors == 2     \* Erase sizes reach MaxSectors 64KB sectors ...
MaxSubsectors == 1  \* ... plus MaxSubsectors 4KB subsectors (+ a partial one)
MaxPolls == 2       \* ticker ticks delivered to one BusyWait call
MaxReads == 3       \* r.Read calls of one Write call that deliver bytes
MaxPages == 2       \* stream lengths reach MaxPages pages (+1 byte)
MaxIDs == 2         \* successful ReadID calls on one controller
MaxCallers == 2     \* goroutines calling NewDevice

(***************************************************************************)
(* Program constants.                                                      *)
(***************************************************************************)
flashCmdPowerUp == 171             \* 0xAB
flashCmdPowerDown == 185           \* 0xB9
flashCmdReadID == 159              \* 0x9F
flashCmdRead == 3                  \* 0x03
flashCmdWriteEnable == 6           \* 0x06
flashCmdPageProgram == 2           \* 0x02
flashCmdErase4KB == 32             \* 0x20
flashCmdErase64KB == 216           \* 0xD8
flashCmdEraseChip == 199           \* 0xC7
flashCmdReadStatusRegister == 5    \* 0x05

maxTx == 65536
cmdBytes == 4
maxData == maxTx - cmdBytes
max24 == 16777215                  \* 1<<24 - 1
pageBuf == 256                     \* len(buf) in Write, payload limit of pageProgram
sectorSize == 65536                \* 64 << 10
subsectorSize == 4096              \* 4 << 10

AddrSpace == max24 + 1             \* the 24-bit address space of the chip

(***************************************************************************)
(* Go integer conversions.                                                 *)
(***************************************************************************)
\* byte(x): the low 8 bits of an int (two's complement for negative x)
Byte(x) == x % 256
\* x >> k on an int: arithmetic shift
Shr(x, k) == x \div (2 ^ k)
Min(a, b) == IF a <= b THEN a ELSE b
Max(a, b) == IF a >= b THEN a ELSE b

(***************************************************************************)
(* Byte buffers ([]byte) in run-length form.                               *)
(***************************************************************************)
Lit(v, n) == [k |-> "lit", a |-> v, n |-> n]
MemRun(a, n) == [k |-> "mem", a |-> a, n |-> n]
SrcRun(a, n) == [k |-> "src", a |-> a, n |-> n]

Joins(x, y) == /\ x.k = y.k
               /\ IF x.k = "lit" THEN x.a = y.a ELSE y.a = x.a + x.n

RECURSIVE Norm(_)
Norm(b) ==
    IF b = <<>> THEN <<>>
    ELSE LET h == Head(b)
             t == Norm(Tail(b))
         IN  IF h.n = 0 THEN t
             ELSE IF t # <<>> /\ Joins(h, Head(t))
                  THEN <<[h EXCEPT !.n = h.n + Head(t).n]>> \o Tail(t)
                  ELSE <<h>> \o t

RECURSIVE BLen(_)
BLen(b) == IF b = <<>> THEN 0 ELSE Head(b).n + BLen(Tail(b))

\* b[:k]
RECURSIVE BTake(_, _)
BTake(b, k) ==
    IF k <= 0 \/ b = <<>> THEN <<>>
    ELSE IF Head(b).n <= k THEN <<Head(b)>> \o BTake(Tail(b), k - Head(b).n)
    ELSE <<[Head(b) EXCEPT !.n = k]>>

\* b[k:]
RECURSIVE BDrop(_, _)
BDrop(b, k) ==
    IF k <= 0 \/ b = <<>> THEN b
    ELSE IF Head(b).n <= k THEN BDrop(Tail(b), k - Head(b).n)
    ELSE <<[Head(b) EXCEPT !.n = @ - k,
                            !.a = IF Head(b).k = "lit" THEN @ ELSE @ + k]>>
         \o Tail(b)

\* make([]byte, n)
MakeBytes(n) == Norm(<<Lit(0, n)>>)
\* []byte{v1, v2, ...}
Bytes(vs) == Norm([i \in 1..Len(vs) |-> Lit(vs[i], 1)])
\* the value of b[i] (0-based) when it is a literal byte
ByteAt(b, i) == Head(BDrop(b, i)).a
\* copy(dst[off:], src)
BCopy(dst, off, src) ==
    LET cnt == Min(BLen(dst) - off, BLen(src))
    IN  Norm(BTake(dst, off) \o BTake(src, cnt) \o BDrop(dst, off + cnt))
\* AddrFrame with the address low byte first
AddrFrame_LittleEndian(op, addr, rest) ==
    Norm(<<Lit(op, 1), Lit(Byte(addr), 1), Lit(Byte(Shr(addr, 8)), 1),
           Lit(Byte(Shr(addr, 16)), 1)>> \o rest)

\* the command frame: opcode, 24-bit address, then `rest`
\*   buf[0] = op; buf[1] = byte(addr >> 16); buf[2] = byte(addr >> 8); buf[3] = byte(addr)
AddrFrame(op, addr, rest) ==
    Norm(<<Lit(op, 1), Lit(Byte(Shr(addr, 16)), 1), Lit(Byte(Shr(addr, 8)), 1),
           Lit(Byte(addr), 1)>> \o rest)

(***************************************************************************)
(* The flash chip on the bus.                                              *)
(***************************************************************************)
\* the address a frame carries in its bytes 1..3 (big-endian)
FrameAddr(f) == ByteAt(f, 1) * 65536 + ByteAt(f, 2) * 256 + ByteAt(f, 3)

\* n bytes of flash contents from address a; the address counter of the chip
\* rolls over at the end of the address space
RECURSIVE MemBytes(_, _)
MemBytes(a, n) ==
    IF n <= 0 THEN <<>>
    ELSE IF a + n <= AddrSpace THEN <<MemRun(a, n)>>
    ELSE <<MemRun(a, AddrSpace - a)>> \o MemBytes(0, n - (AddrSpace - a))

\* identities a chip may answer ReadID with: the two known ones and a stranger
DeviceIDs == { <<32, 186, 22>>, <<239, 112, 24>>, <<194, 32, 24>> }

(***************************************************************************)
(* flashParams and the knownFlash table (durations in microseconds).       *)
(***************************************************************************)
flashIDMicronN25Q32 == <<32, 186, 22>>       \* {0x20, 0xBA, 0x16}
flashIDWinbondW25Q128 == <<239, 112, 24>>    \* {0xEF, 0x70, 0x18}

knownFlash ==
    [i \in {flashIDMicronN25Q32, flashIDWinbondW25Q128} |->
        IF i = flashIDMicronN25Q32
        THEN [name |-> "Micron N25Q 32Mb",
              tRES1 |-> 0, tDP |-> 0, tPP |-> 5000,
              tErase4KB |-> 800000, tErase64KB |-> 3000000,
              tEraseChip |-> 60000000]
        ELSE [name |-> "Winbond W25Q 128Mb",
              tRES1 |-> 3, tDP |-> 3, tPP |-> 3000,
              tErase4KB |-> 400000, tErase64KB |-> 2000000,
              tEraseChip |-> 200000000]]

RECURSIVE SetMax(_)
SetMax(S) == IF S = {} THEN 0
             ELSE LET x == CHOOSE y \in S : TRUE IN Max(x, SetMax(S \ {x}))

\* the goroutines that call NewDevice
Callers == 1..MaxCallers

VARIABLES
    op,          \* the public operation called ("none" before the call)
    stack,       \* call stack of labels, the running statement first
    ret,         \* error returned by the most recent return ("nil" = no error)
    id,          \* Flash.id
    pr,          \* Flash.pr: <<>> is nil, <<p>> points to the flashParams p
    ids,         \* the identities the successful ReadID calls stored, in order
    name,        \* the name ReadID returned
    buf,         \* the frame given to tx; conn.Tx(buf, buf) overwrites it
    txErr,       \* the named result err of tx
    csLevel,     \* level of the chip-select line
    txTrace,     \* what the running (or last) tx call did, in order
    rBase, rN,   \* arguments of Read
    rAddr, out, off, remaining, chunk,   \* locals of Read
    srcLen, srcPos, reads,   \* the reader r: stream length, position, calls
    srcEOF,      \* the reader has returned io.EOF from a Read
    wAddr, wN,   \* locals of Write
    ppAddr, ppData,          \* arguments of pageProgram
    erBase, erSize,          \* arguments of Erase
    erAddr, erRemaining,     \* locals of Erase
    eAddr,       \* argument of Erase4KB / Erase64KB
    steps,       \* the erase steps Erase has called, in order
    bwInterval, bwTimeout,   \* arguments of BusyWait
    timer,       \* "none", "armed", "stopped" or "fired" (a value waits in timer.C)
    tick,        \* a tick waits in ticker.C
    polls,       \* ticks delivered to the running BusyWait
    sr,          \* result of the last ReadStatusRegister
    lastSR,      \* last status read of the running BusyWait: "none", "busy", "ready", "err"
    srErr,       \* first error of a status read of the running BusyWait
    devBusy,     \* the chip runs a program/erase cycle
    devWEL,      \* write-enable latch of the chip
    devProt,     \* bits 7..2 of the chip's status register, as a number 0..63
    trace,       \* commands handed to the bus and BusyWait calls/returns, in order
    slept,       \* durations given to time.Sleep, in order
    hostInitialized,   \* the process-wide atomic.Bool
    wcPc,        \* writeCommand: the statement it is at ("idle" = not started)
    bulkErase,   \* writeCommand: the -e flag
    input,       \* writeCommand: an input file was named and opened
    fileSize,    \* the size of the input file
    defers,      \* writeCommand: the deferred calls registered so far
    reset,       \* level of the FPGA reset line ("low" = FPGA held in reset)
    exit,        \* exit status of the process ("none" while it runs)
    hostState,   \* the periph host: "none", "ok" once host.Init succeeded, "failed"
    hostInits,   \* calls of host.Init so far: 0, 1, or 2 for more than one
    ndPc,        \* where each caller of NewDevice stands
    ndRet        \* what its last NewDevice call returned

ctlV == <<op, stack, ret>>
flashV == <<id, pr, ids, name>>
cmdV == <<wcPc, bulkErase, input, fileSize, defers, reset, exit>>
hostV == <<hostInitialized, hostInits, hostState, ndPc, ndRet, cmdV>>
txV == <<buf, txErr, csLevel, txTrace>>
readV == <<rBase, rN, rAddr, out, off, remaining, chunk>>
writeV == <<srcLen, srcPos, reads, wAddr, wN, srcEOF, ppAddr, ppData>>
eraseV == <<erBase, erSize, erAddr, erRemaining, eAddr, steps>>
bwV == <<bwInterval, bwTimeout, timer, tick, polls, sr, lastSR, srErr>>
devV == <<devBusy, devWEL, devProt>>
histV == <<trace, slept>>
vars == <<ctlV, flashV, hostV, txV, readV, writeV, eraseV, bwV, devV, histV>>

\* the state right after NewFlash, with the chip idle
Init ==
    /\ op = "none" /\ stack = <<>> /\ ret = "nil"
    /\ id = <<0, 0, 0>> /\ pr = <<>> /\ ids = <<>> /\ name = ""
    /\ buf = <<>> /\ txErr = "nil" /\ csLevel = "high" /\ txTrace = <<>>
    /\ rBase = 0 /\ rN = 0 /\ rAddr = 0 /\ out = <<>> /\ off = 0
    /\ remaining = 0 /\ chunk = 0
    /\ srcLen = 0 /\ srcPos = 0 /\ reads = 0 /\ wAddr = 0 /\ wN = 0 /\ srcEOF = FALSE
    /\ ppAddr = 0 /\ ppData = <<>>
    /\ erBase = 0 /\ erSize = 0 /\ erAddr = 0 /\ erRemaining = 0 /\ eAddr = 0
    /\ steps = <<>>
    /\ bwInterval = 0 /\ bwTimeout = 0 /\ timer = "none" /\ tick = FALSE
    /\ polls = 0 /\ sr = 0 /\ lastSR = "none" /\ srErr = "nil"
    /\ devBusy = FALSE /\ devWEL = FALSE /\ devProt = 0
    /\ trace = <<>> /\ slept = <<>>
    /\ hostInitialized = FALSE /\ hostInits = 0 /\ hostState = "none"
    /\ ndPc = [g \in Callers |-> "idle"] /\ ndRet = [g \in Callers |-> "none"]
    /\ wcPc = "idle" /\ bulkErase = FALSE /\ input = FALSE /\ fileSize = 0
    /\ defers = <<>> /\ reset = "high" /\ exit = "none"

\* the same, with the chip possibly inside a program/erase cycle
InitAnyDevice ==
    /\ op = "none" /\ stack = <<>> /\ ret = "nil"
    /\ id = <<0, 0, 0>> /\ pr = <<>> /\ ids = <<>> /\ name = ""
    /\ buf = <<>> /\ txErr = "nil" /\ csLevel = "high" /\ txTrace = <<>>
    /\ rBase = 0 /\ rN = 0 /\ rAddr = 0 /\ out = <<>> /\ off = 0
    /\ remaining = 0 /\ chunk = 0
    /\ srcLen = 0 /\ srcPos = 0 /\ reads = 0 /\ wAddr = 0 /\ wN = 0 /\ srcEOF = FALSE
    /\ ppAddr = 0 /\ ppData = <<>>
    /\ erBase = 0 /\ erSize = 0 /\ erAddr = 0 /\ erRemaining = 0 /\ eAddr = 0
    /\ steps = <<>>
    /\ bwInterval = 0 /\ bwTimeout = 0 /\ timer = "none" /\ tick = FALSE
    /\ polls = 0 /\ sr = 0 /\ lastSR = "none" /\ srErr = "nil"
    /\ devBusy \in BOOLEAN /\ devWEL \in BOOLEAN /\ devProt = 0
    /\ trace = <<>> /\ slept = <<>>
    /\ hostInitialized = FALSE /\ hostInits = 0 /\ hostState = "none"
    /\ ndPc = [g \in Callers |-> "idle"] /\ ndRet = [g \in Callers |-> "none"]
    /\ wcPc = "idle" /\ bulkErase = FALSE /\ input = FALSE /\ fileSize = 0
    /\ defers = <<>> /\ reset = "high" /\ exit = "none"

\* the same, with any contents of the chip's status register
InitAnyStatus ==
    /\ op = "none" /\ stack = <<>> /\ ret = "nil"
    /\ id = <<0, 0, 0>> /\ pr = <<>> /\ ids = <<>> /\ name = ""
    /\ buf = <<>> /\ txErr = "nil" /\ csLevel = "high" /\ txTrace = <<>>
    /\ rBase = 0 /\ rN = 0 /\ rAddr = 0 /\ out = <<>> /\ off = 0
    /\ remaining = 0 /\ chunk = 0
    /\ srcLen = 0 /\ srcPos = 0 /\ reads = 0 /\ wAddr = 0 /\ wN = 0 /\ srcEOF = FALSE
    /\ ppAddr = 0 /\ ppData = <<>>
    /\ erBase = 0 /\ erSize = 0 /\ erAddr = 0 /\ erRemaining = 0 /\ eAddr = 0
    /\ steps = <<>>
    /\ bwInterval = 0 /\ bwTimeout = 0 /\ timer = "none" /\ tick = FALSE
    /\ polls = 0 /\ sr = 0 /\ lastSR = "none" /\ srErr = "nil"
    /\ devBusy \in BOOLEAN /\ devWEL \in BOOLEAN /\ devProt \in 0..63
    /\ trace = <<>> /\ slept = <<>>
    /\ hostInitialized = FALSE /\ hostInits = 0 /\ hostState = "none"
    /\ ndPc = [g \in Callers |-> "idle"] /\ ndRet = [g \in Callers |-> "none"]
    /\ wcPc = "idle" /\ bulkErase = FALSE /\ input = FALSE /\ fileSize = 0
    /\ defers = <<>> /\ reset = "high" /\ exit = "none"

(***************************************************************************)
(* Calls and returns.                                                      *)
(***************************************************************************)
At(l) == stack # <<>> /\ Head(stack) = l
\* continue at label l of the running function
Goto(l) == stack' = <<l>> \o Tail(stack)
\* call the function entered at `entry`; the caller resumes at `cont`
Call(entry, cont) == stack' = <<entry, cont>> \o Tail(stack)
\* return e from the running function
Return(e) == stack' = Tail(stack) /\ ret' = e
\* the operation has returned to its caller
Done == op # "none" /\ stack = <<>>

(***************************************************************************)
(* The chip's side of a transaction.                                       *)
(***************************************************************************)
StatusByte == (IF devBusy THEN 1 ELSE 0) + (IF devWEL THEN 2 ELSE 0) + 4 * devProt

CycleCmds == {flashCmdPageProgram, flashCmdErase4KB, flashCmdErase64KB,
              flashCmdEraseChip}

\* what the chip shifts out while frame f is shifted in
Response(f, jedec) ==
    LET cmd == ByteAt(f, 0) IN
    IF cmd = flashCmdRead
    THEN Norm(BTake(f, cmdBytes) \o MemBytes(FrameAddr(f), BLen(f) - cmdBytes))
    ELSE IF cmd = flashCmdReadStatusRegister
    THEN Norm(BTake(f, 1) \o <<Lit(StatusByte, 1)>> \o BDrop(f, 2))
    ELSE IF cmd = flashCmdReadID
    THEN Norm(BTake(f, 1) \o Bytes(jedec) \o BDrop(f, 4))
    ELSE f

\* the aligned block of size g that holds address a
Block(a, g) == [lo |-> a - (a % g), hi |-> a - (a % g) + g]
\* what the erase cycle that frame f starts clears: the whole sector or
\* subsector that holds the address of the command, or the whole chip
ClearedBy(f) ==
    LET cmd == ByteAt(f, 0) IN
    IF cmd = flashCmdErase64KB THEN {Block(FrameAddr(f), sectorSize)}
    ELSE IF cmd = flashCmdErase4KB THEN {Block(FrameAddr(f), subsectorSize)}
    ELSE IF cmd = flashCmdEraseChip THEN {[lo |-> 0, hi |-> AddrSpace]}
    ELSE {}

\* the chip decodes frame f; a busy chip ignores all but status reads
DeviceAccepts(f) ==
    LET cmd == ByteAt(f, 0) IN
    /\ devWEL' = IF cmd = flashCmdWriteEnable /\ ~devBusy THEN TRUE ELSE devWEL
    /\ devBusy' = IF cmd \in CycleCmds /\ ~devBusy /\ devWEL THEN TRUE ELSE devBusy
    /\ UNCHANGED devProt

\* the program/erase cycle ends; the chip clears the write-enable latch
DeviceReady ==
    /\ devBusy
    /\ devBusy' = FALSE
    /\ devWEL' = FALSE
    /\ UNCHANGED devProt
    /\ UNCHANGED <<ctlV, flashV, hostV, txV, readV, writeV, eraseV, bwV, histV>>

(***************************************************************************)
(* Flash.tx: one SPI transaction with chip-select asserted.                *)
(***************************************************************************)
\* if err = f.cs.Out(gpio.Low); err != nil { return err }
TxAssert ==
    /\ At("tx")
    /\ \E ok \in BOOLEAN :
         IF ok
         THEN /\ csLevel' = "low"
              /\ txTrace' = <<"low">>
              /\ txErr' = "nil"
              /\ Goto("tx_Tx")
              /\ UNCHANGED ret
         ELSE /\ txTrace' = <<"lowFail">>
              /\ txErr' = "errCSLow"
              /\ Return("errCSLow")
              /\ UNCHANGED csLevel
    /\ UNCHANGED <<op, flashV, hostV, buf, readV, writeV, eraseV, bwV, devV, histV>>

\* status polls are not listed in trace: BusyWait's calls and returns are
Logged(f) == IF ByteAt(f, 0) = flashCmdReadStatusRegister THEN trace
             ELSE Append(trace, [e |-> "tx", f |-> f])

\* err = f.conn.Tx(buf, buf)
\*   a failed transfer may or may not have reached the chip
TxTransfer ==
    /\ At("tx_Tx")
    /\ trace' = Logged(buf)
    /\ \/ \E jedec \in (IF ByteAt(buf, 0) = flashCmdReadID THEN DeviceIDs
                        ELSE {<<0, 0, 0>>}) :
            /\ buf' = Response(buf, jedec)
            /\ DeviceAccepts(buf)
            /\ txErr' = "nil"
            /\ txTrace' = Append(txTrace, "tx")
       \/ /\ txErr' = "errTx"
          /\ txTrace' = Append(txTrace, "txFail")
          /\ \/ DeviceAccepts(buf)
             \/ UNCHANGED devV
          /\ UNCHANGED buf
    /\ Goto("tx_defer")
    /\ UNCHANGED <<op, ret, flashV, hostV, csLevel, readV, writeV, eraseV, bwV, slept>>

\* TxDeassert as a plain statement after conn.Tx instead of a defer: a failed
\* transaction returns at once
TxDeassert_NotDeferred ==
    /\ At("tx_defer")
    /\ IF txErr # "nil"
       THEN UNCHANGED <<csLevel, txTrace, txErr>>
       ELSE \E ok \in BOOLEAN :
              /\ csLevel' = IF ok THEN "high" ELSE csLevel
              /\ txTrace' = Append(txTrace, IF ok THEN "high" ELSE "highFail")
              /\ txErr' = IF ~ok THEN "errCSHigh" ELSE txErr
    /\ Return(txErr')
    /\ UNCHANGED <<op, flashV, hostV, buf, readV, writeV, eraseV, bwV, devV, histV>>

\* TxDeassert without the err == nil test: the deassertion error wins
TxDeassert_CsErrWins ==
    /\ At("tx_defer")
    /\ \E ok \in BOOLEAN :
         /\ csLevel' = IF ok THEN "high" ELSE csLevel
         /\ txTrace' = Append(txTrace, IF ok THEN "high" ELSE "highFail")
         /\ txErr' = IF ~ok THEN "errCSHigh" ELSE txErr
    /\ Return(txErr')
    /\ UNCHANGED <<op, flashV, hostV, buf, readV, writeV, eraseV, bwV, devV, histV>>

\* defer: if csErr := f.cs.Out(gpio.High); csErr != nil && err == nil { err = csErr }
TxDeassert ==
    /\ At("tx_defer")
    /\ \E ok \in BOOLEAN :
         /\ csLevel' = IF ok THEN "high" ELSE csLevel
         /\ txTrace' = Append(txTrace, IF ok THEN "high" ELSE "highFail")
         /\ txErr' = IF ~ok /\ txErr = "nil" THEN "errCSHigh" ELSE txErr
    /\ Return(txErr')
    /\ UNCHANGED <<op, flashV, hostV, buf, readV, writeV, eraseV, bwV, devV, histV>>

(***************************************************************************)
(* Flash.Read                                                              *)
(***************************************************************************)
ReadAddrs == {-1, 0, 1, 255, 65535, 65536, max24 - maxData, max24}
ReadLens == {0, 1, 2} \cup
            { k * maxData + d : k \in 1..MaxChunks, d \in {-1, 0, 1} }

\* out := make([]byte, n); off := 0; remaining := n
CallRead(addr, n) ==
    /\ op = "none"
    /\ op' = "Read"
    /\ rBase' = addr /\ rN' = n /\ rAddr' = addr
    /\ out' = MakeBytes(n) /\ off' = 0 /\ remaining' = n
    /\ stack' = <<"Read_loop">>
    /\ UNCHANGED <<ret, chunk, flashV, hostV, txV, writeV, eraseV, bwV, devV, histV>>

\* ReadLoop taking maxTx data bytes for a chunk
ReadLoop_ChunkOfMaxTx ==
    /\ At("Read_loop")
    /\ IF remaining > 0
       THEN /\ chunk' = Min(remaining, maxTx)
            /\ buf' = AddrFrame(flashCmdRead, rAddr, MakeBytes(chunk'))
            /\ Call("tx", "Read_tx")
            /\ UNCHANGED ret
       ELSE /\ Return("nil")
            /\ UNCHANGED <<chunk, buf>>
    /\ UNCHANGED <<op, flashV, hostV, txErr, csLevel, txTrace, rBase, rN, rAddr, out,
                   off, remaining, writeV, eraseV, bwV, devV, histV>>

\* for remaining > 0 { chunk := min(remaining, maxData); buf := ...; f.tx(buf)
ReadLoop ==
    /\ At("Read_loop")
    /\ IF remaining > 0
       THEN /\ chunk' = Min(remaining, maxData)
            /\ buf' = AddrFrame(flashCmdRead, rAddr, MakeBytes(chunk'))
            /\ Call("tx", "Read_tx")
            /\ UNCHANGED ret
       ELSE /\ Return("nil")
            /\ UNCHANGED <<chunk, buf>>
    /\ UNCHANGED <<op, flashV, hostV, txErr, csLevel, txTrace, rBase, rN, rAddr, out,
                   off, remaining, writeV, eraseV, bwV, devV, histV>>

\* ReadChunk with the address left where it was: every transaction reads from
\* the start address
ReadChunk_AddrNotAdvanced ==
    /\ At("Read_tx")
    /\ IF ret # "nil"
       THEN /\ out' = <<>>
            /\ Return(ret)
            /\ UNCHANGED <<off, remaining>>
       ELSE /\ out' = BCopy(out, off, BDrop(buf, cmdBytes))
            /\ off' = off + chunk
            /\ remaining' = remaining - chunk
            /\ Goto("Read_loop")
            /\ UNCHANGED ret
    /\ UNCHANGED <<op, flashV, hostV, txV, rBase, rN, rAddr, chunk, writeV, eraseV, bwV,
                   devV, histV>>

\* ReadChunk returning the bytes read so far along with the error
ReadChunk_PartialOutput ==
    /\ At("Read_tx")
    /\ IF ret # "nil"
       THEN /\ Return(ret)
            /\ UNCHANGED <<rAddr, out, off, remaining>>
       ELSE /\ out' = BCopy(out, off, BDrop(buf, cmdBytes))
            /\ rAddr' = rAddr + chunk
            /\ off' = off + chunk
            /\ remaining' = remaining - chunk
            /\ Goto("Read_loop")
            /\ UNCHANGED ret
    /\ UNCHANGED <<op, flashV, hostV, txV, rBase, rN, chunk, writeV, eraseV, bwV, devV,
                   histV>>

\* if err != nil { return nil, err }
\* copy(out[off:], buf[cmdBytes:]); addr += chunk; off += chunk; remaining -= chunk
ReadChunk ==
    /\ At("Read_tx")
    /\ IF ret # "nil"
       THEN /\ out' = <<>>
            /\ Return(ret)
            /\ UNCHANGED <<rAddr, off, remaining>>
       ELSE /\ out' = BCopy(out, off, BDrop(buf, cmdBytes))
            /\ rAddr' = rAddr + chunk
            /\ off' = off + chunk
            /\ remaining' = remaining - chunk
            /\ Goto("Read_loop")
            /\ UNCHANGED ret
    /\ UNCHANGED <<op, flashV, hostV, txV, rBase, rN, chunk, writeV, eraseV, bwV, devV,
                   histV>>

(***************************************************************************)
(* Flash.ReadStatusRegister and StatusRegister                             *)
(***************************************************************************)
\* sr&(1<<k) != 0
StatusRegisterProtect(x) == (x \div 128) % 2 = 1
SectorProtect(x) == (x \div 64) % 2 = 1
TopBottom(x) == (x \div 32) % 2 = 1
BlockProtect2(x) == (x \div 16) % 2 = 1
BlockProtect1(x) == (x \div 8) % 2 = 1
\* BlockProtect0 testing the bit of BlockProtect1
BlockProtect0_Bit3(x) == (x \div 8) % 2 = 1
BlockProtect0(x) == (x \div 4) % 2 = 1
\* sr&(1<<1) != 0
WriteEnabled(x) == (x \div 2) % 2 = 1
\* sr&(1<<0) != 0
Busy(x) == (x \div 1) % 2 = 1

CallReadStatusRegister ==
    /\ op = "none"
    /\ op' = "ReadStatusRegister"
    /\ stack' = <<"ReadStatusRegister">>
    /\ UNCHANGED <<ret, flashV, hostV, txV, readV, writeV, eraseV, bwV, devV, histV>>

\* buf := []byte{flashCmdReadStatusRegister, 0}; f.tx(buf)
ReadStatusRegister ==
    /\ At("ReadStatusRegister")
    /\ buf' = Bytes(<<flashCmdReadStatusRegister, 0>>)
    /\ Call("tx", "ReadStatusRegister_tx")
    /\ UNCHANGED <<op, ret, flashV, hostV, txErr, csLevel, txTrace, readV, writeV,
                   eraseV, bwV, devV, histV>>

\* if err != nil { return 0, err }; return StatusRegister(buf[1]), nil
ReadStatusRegisterRet ==
    /\ At("ReadStatusRegister_tx")
    /\ IF ret # "nil"
       THEN /\ sr' = 0
            /\ lastSR' = "err"
            /\ srErr' = IF srErr = "nil" THEN ret ELSE srErr
            /\ Return(ret)
       ELSE /\ sr' = ByteAt(buf, 1)
            /\ lastSR' = IF Busy(sr') THEN "busy" ELSE "ready"
            /\ Return("nil")
            /\ UNCHANGED srErr
    /\ UNCHANGED <<op, flashV, hostV, txV, readV, writeV, eraseV, bwInterval,
                   bwTimeout, timer, tick, polls, devV, histV>>

(***************************************************************************)
(* Flash.BusyWait                                                          *)
(*                                                                         *)
(* time.NewTimer / time.NewTicker: the timer delivers one value to timer.C *)
(* once the timeout has elapsed (TimerFire), the ticker one to ticker.C    *)
(* every interval (TickerFire; the channel holds one tick).  How long the  *)
(* timeout and the interval are against the chip's cycle is left open, so  *)
(* both fire at any moment of the loop.  A timer stopped right after       *)
(* NewTimer(0) never delivers.                                             *)
(***************************************************************************)
Intervals == {100, 50000}
Timeouts == {0, 3000, 5000}

BusyWaitMark(e) == Append(trace, [e |-> e, f |-> <<>>])

CallBusyWait(interval, timeout) ==
    /\ op = "none"
    /\ op' = "BusyWait"
    /\ bwInterval' = interval /\ bwTimeout' = timeout
    /\ stack' = <<"BusyWait">>
    /\ UNCHANGED <<ret, flashV, hostV, txV, readV, writeV, eraseV, timer, tick, polls,
                   sr, lastSR, srErr, devV, histV>>

\* Fast path: sr, err := f.ReadStatusRegister()
BusyWait ==
    /\ At("BusyWait")
    /\ timer' = "none" /\ tick' = FALSE /\ polls' = 0
    /\ lastSR' = "none" /\ srErr' = "nil"
    /\ trace' = BusyWaitMark("BusyWait")
    /\ Call("ReadStatusRegister", "BusyWait_fast")
    /\ UNCHANGED <<op, ret, flashV, hostV, txV, readV, writeV, eraseV, bwInterval,
                   bwTimeout, sr, devV, slept>>

\* BusyWaitFast without the err == nil test: a failed read counts as ready
BusyWaitFast_ErrIgnored ==
    /\ At("BusyWait_fast")
    /\ IF ~Busy(sr)
       THEN /\ Return("nil")
            /\ trace' = BusyWaitMark("BusyWaitRet")
            /\ UNCHANGED <<timer, tick>>
       ELSE /\ timer' = IF bwTimeout = 0 THEN "stopped" ELSE "armed"
            /\ tick' = FALSE
            /\ Goto("BusyWait_select")
            /\ UNCHANGED <<ret, trace>>
    /\ UNCHANGED <<op, flashV, hostV, txV, readV, writeV, eraseV, bwInterval,
                   bwTimeout, polls, sr, lastSR, srErr, devV, slept>>

\* BusyWaitFast without timer.Stop(): NewTimer(0) is left running
BusyWaitFast_TimerNotStopped ==
    /\ At("BusyWait_fast")
    /\ IF ret = "nil" /\ ~Busy(sr)
       THEN /\ Return("nil")
            /\ trace' = BusyWaitMark("BusyWaitRet")
            /\ UNCHANGED <<timer, tick>>
       ELSE /\ timer' = "armed"
            /\ tick' = FALSE
            /\ Goto("BusyWait_select")
            /\ UNCHANGED <<ret, trace>>
    /\ UNCHANGED <<op, flashV, hostV, txV, readV, writeV, eraseV, bwInterval,
                   bwTimeout, polls, sr, lastSR, srErr, devV, slept>>

\* BusyWaitFast stopping the timer whatever the timeout
BusyWaitFast_TimerAlwaysStopped ==
    /\ At("BusyWait_fast")
    /\ IF ret = "nil" /\ ~Busy(sr)
       THEN /\ Return("nil")
            /\ trace' = BusyWaitMark("BusyWaitRet")
            /\ UNCHANGED <<timer, tick>>
       ELSE /\ timer' = "stopped"
            /\ tick' = FALSE
            /\ Goto("BusyWait_select")
            /\ UNCHANGED <<ret, trace>>
    /\ UNCHANGED <<op, flashV, hostV, txV, readV, writeV, eraseV, bwInterval,
                   bwTimeout, polls, sr, lastSR, srErr, devV, slept>>

\* if ... err == nil && !sr.Busy() { return nil }
\* timer := time.NewTimer(timeout); if timeout == 0 { timer.Stop() }
\* ticker := time.NewTicker(interval)
BusyWaitFast ==
    /\ At("BusyWait_fast")
    /\ IF ret = "nil" /\ ~Busy(sr)
       THEN /\ Return("nil")
            /\ trace' = BusyWaitMark("BusyWaitRet")
            /\ UNCHANGED <<timer, tick>>
       ELSE /\ timer' = IF bwTimeout = 0 THEN "stopped" ELSE "armed"
            /\ tick' = FALSE
            /\ Goto("BusyWait_select")
            /\ UNCHANGED <<ret, trace>>
    /\ UNCHANGED <<op, flashV, hostV, txV, readV, writeV, eraseV, bwInterval,
                   bwTimeout, polls, sr, lastSR, srErr, devV, slept>>

InBusyWaitLoop ==
    \E i \in 1..Len(stack) : stack[i] \in {"BusyWait_select", "BusyWait_poll"}

\* the timeout has elapsed: the runtime sends on timer.C
TimerFire ==
    /\ InBusyWaitLoop
    /\ timer = "armed"
    /\ timer' = "fired"
    /\ UNCHANGED <<ctlV, flashV, hostV, txV, readV, writeV, eraseV, bwInterval,
                   bwTimeout, tick, polls, sr, lastSR, srErr, devV, histV>>

\* an interval has elapsed: the runtime sends on ticker.C (dropped when full)
TickerFire ==
    /\ InBusyWaitLoop
    /\ ~tick
    /\ tick' = TRUE
    /\ polls' = Min(polls + 1, MaxPolls)
    /\ UNCHANGED <<ctlV, flashV, hostV, txV, readV, writeV, eraseV, bwInterval,
                   bwTimeout, timer, sr, lastSR, srErr, devV, histV>>

\* BusyWaitTimeout reporting the timeout as an error
BusyWaitTimeout_Error ==
    /\ At("BusyWait_select")
    /\ timer = "fired"
    /\ Return("errTimeout")
    /\ trace' = BusyWaitMark("BusyWaitRet")
    /\ UNCHANGED <<op, flashV, hostV, txV, readV, writeV, eraseV, bwV, devV, slept>>

\* select { case <-timer.C: return nil
BusyWaitTimeout ==
    /\ At("BusyWait_select")
    /\ timer = "fired"
    /\ Return("nil")
    /\ trace' = BusyWaitMark("BusyWaitRet")
    /\ UNCHANGED <<op, flashV, hostV, txV, readV, writeV, eraseV, bwV, devV, slept>>

\* select { case <-ticker.C: sr, err := f.ReadStatusRegister()
BusyWaitTick ==
    /\ At("BusyWait_select")
    /\ tick
    /\ tick' = FALSE
    /\ Call("ReadStatusRegister", "BusyWait_poll")
    /\ UNCHANGED <<op, ret, flashV, hostV, txV, readV, writeV, eraseV, bwInterval,
                   bwTimeout, timer, polls, sr, lastSR, srErr, devV, histV>>

\* if err != nil { return err }; if !sr.Busy() { return nil }
BusyWaitPoll ==
    /\ At("BusyWait_poll")
    /\ IF ret # "nil"
       THEN /\ Return(ret)
            /\ trace' = BusyWaitMark("BusyWaitRet")
       ELSE IF ~Busy(sr)
       THEN /\ Return("nil")
            /\ trace' = BusyWaitMark("BusyWaitRet")
       ELSE /\ Goto("BusyWait_select")
            /\ UNCHANGED <<ret, trace>>
    /\ UNCHANGED <<op, flashV, hostV, txV, readV, writeV, eraseV, bwV, devV, slept>>

BusyWaitNext ==
    \/ ReadStatusRegister
    \/ ReadStatusRegisterRet
    \/ BusyWait
    \/ BusyWaitFast
    \/ BusyWaitTimeout
    \/ BusyWaitTick
    \/ BusyWaitPoll
    \/ TimerFire
    \/ TickerFire

(***************************************************************************)
(* Timing parameters: Flash.paramOrMax and the six queries                 *)
(***************************************************************************)
\* paramOrMax falling back to the first profile of the table
paramOrMax_FirstProfile(field) ==
    IF pr # <<>> THEN pr[1][field]
    ELSE knownFlash[flashIDMicronN25Q32][field]

\* paramOrMax without the fallback: the zero Duration when f.pr is nil
paramOrMax_NoFallback(field) ==
    IF pr # <<>> THEN pr[1][field]
    ELSE 0

\* if f.pr != nil { return get(f.pr) }; else the maximum over knownFlash
paramOrMax(field) ==
    IF pr # <<>> THEN pr[1][field]
    ELSE SetMax({ knownFlash[i][field] : i \in DOMAIN knownFlash })

tRES1 == paramOrMax("tRES1")
tDP == paramOrMax("tDP")
tPP == paramOrMax("tPP")
tErase4KB == paramOrMax("tErase4KB")
tErase64KB == paramOrMax("tErase64KB")
tEraseChip == paramOrMax("tEraseChip")

\* the frames of the calls that have returned are gone
LocalsDie ==
    /\ timer' = "none" /\ tick' = FALSE /\ polls' = 0
    /\ sr' = 0 /\ lastSR' = "none" /\ srErr' = "nil"
    /\ buf' = <<>> /\ txErr' = "nil" /\ txTrace' = <<>>

(***************************************************************************)
(* Flash.PowerUp, Flash.PowerDown, Flash.ReadID                            *)
(***************************************************************************)
CallPowerUp ==
    /\ op = "none"
    /\ op' = "PowerUp"
    /\ buf' = Bytes(<<flashCmdPowerUp>>)
    /\ stack' = <<"tx", "PowerUp_tx">>
    /\ UNCHANGED <<ret, flashV, hostV, txErr, csLevel, txTrace, readV, writeV, eraseV,
                   bwV, devV, histV>>

\* if err := f.tx(buf); err != nil { return err }; time.Sleep(f.tRES1())
PowerUpRet ==
    /\ At("PowerUp_tx")
    /\ IF ret # "nil"
       THEN Return(ret) /\ UNCHANGED slept
       ELSE Return("nil") /\ slept' = Append(slept, tRES1)
    /\ UNCHANGED <<op, flashV, hostV, txV, readV, writeV, eraseV, bwV, devV, trace>>

CallPowerDown ==
    /\ op = "none"
    /\ op' = "PowerDown"
    /\ buf' = Bytes(<<flashCmdPowerDown>>)
    /\ stack' = <<"tx", "PowerDown_tx">>
    /\ UNCHANGED <<ret, flashV, hostV, txErr, csLevel, txTrace, readV, writeV, eraseV,
                   bwV, devV, histV>>

\* if err := f.tx(buf); err != nil { return err }; time.Sleep(f.tDP())
PowerDownRet ==
    /\ At("PowerDown_tx")
    /\ IF ret # "nil"
       THEN Return(ret) /\ UNCHANGED slept
       ELSE Return("nil") /\ slept' = Append(slept, tDP)
    /\ UNCHANGED <<op, flashV, hostV, txV, readV, writeV, eraseV, bwV, devV, trace>>

\* buf := make([]byte, 4); buf[0] = flashCmdReadID; f.tx(buf)
CallReadID ==
    /\ op = "none"
    /\ op' = "ReadID"
    /\ buf' = Norm(<<Lit(flashCmdReadID, 1)>> \o BDrop(MakeBytes(4), 1))
    /\ stack' = <<"tx", "ReadID_tx">>
    /\ UNCHANGED <<ret, flashV, hostV, txErr, csLevel, txTrace, readV, writeV, eraseV,
                   bwV, devV, histV>>

\* ReadIDRet taking the identity from buf[0:3]
ReadIDRet_IdFromOffset0 ==
    /\ At("ReadID_tx")
    /\ IF ret # "nil"
       THEN /\ Return(ret)
            /\ name' = ""
            /\ UNCHANGED <<id, pr, ids>>
       ELSE /\ id' = <<ByteAt(buf, 0), ByteAt(buf, 1), ByteAt(buf, 2)>>
            /\ ids' = Append(ids, id')
            /\ IF id' \in DOMAIN knownFlash
               THEN pr' = <<knownFlash[id']>> /\ name' = knownFlash[id'].name
               ELSE pr' = pr /\ name' = ""
            /\ Return("nil")
    /\ UNCHANGED <<op, hostV, txV, readV, writeV, eraseV, bwV, devV, histV>>

\* f.id = [3]byte(buf[1:])
\* if params, ok := knownFlash[f.id]; ok { f.pr = &params; name = params.name }
ReadIDRet ==
    /\ At("ReadID_tx")
    /\ IF ret # "nil"
       THEN /\ Return(ret)
            /\ name' = ""
            /\ UNCHANGED <<id, pr, ids>>
       ELSE /\ id' = <<ByteAt(buf, 1), ByteAt(buf, 2), ByteAt(buf, 3)>>
            /\ ids' = Append(ids, id')
            /\ IF id' \in DOMAIN knownFlash
               THEN pr' = <<knownFlash[id']>> /\ name' = knownFlash[id'].name
               ELSE pr' = pr /\ name' = ""
            /\ Return("nil")
    /\ UNCHANGED <<op, hostV, txV, readV, writeV, eraseV, bwV, devV, histV>>

(***************************************************************************)
(* Flash.writeEnable, Flash.pageProgram, Flash.Write                       *)
(***************************************************************************)
\* buf := []byte{flashCmdWriteEnable}; return f.tx(buf)
writeEnable ==
    /\ At("writeEnable")
    /\ buf' = Bytes(<<flashCmdWriteEnable>>)
    /\ Goto("tx")
    /\ UNCHANGED <<op, ret, flashV, hostV, txErr, csLevel, txTrace, readV, writeV,
                   eraseV, bwV, devV, histV>>

\* if err := f.writeEnable(); err != nil { return err }
pageProgram ==
    /\ At("pageProgram")
    /\ Call("writeEnable", "pageProgram_we")
    /\ UNCHANGED <<op, ret, flashV, hostV, txV, readV, writeV, eraseV, bwV, devV, histV>>

\* the range checks, the frame, f.tx(buf)
pageProgramFrame ==
    /\ At("pageProgram_we")
    /\ IF ret # "nil"
       THEN Return(ret) /\ UNCHANGED buf
       ELSE IF ppAddr < 0 \/ ppAddr > max24
       THEN Return("errRange") /\ UNCHANGED buf
       ELSE IF BLen(ppData) > pageBuf
       THEN Return("errLen") /\ UNCHANGED buf
       ELSE /\ buf' = AddrFrame(flashCmdPageProgram, ppAddr, ppData)
            /\ Call("tx", "pageProgram_tx")
            /\ UNCHANGED ret
    /\ UNCHANGED <<op, flashV, hostV, txErr, csLevel, txTrace, readV, writeV, eraseV,
                   bwV, devV, histV>>

\* if err := f.tx(buf); err != nil { return err }
\* return f.BusyWait(100*time.Microsecond, f.tPP())
pageProgramWait ==
    /\ At("pageProgram_tx")
    /\ IF ret # "nil"
       THEN Return(ret) /\ UNCHANGED <<bwInterval, bwTimeout>>
       ELSE /\ bwInterval' = 100
            /\ bwTimeout' = tPP
            /\ Goto("BusyWait")
            /\ UNCHANGED ret
    /\ UNCHANGED <<op, flashV, hostV, txV, readV, writeV, eraseV, timer, tick, polls,
                   sr, lastSR, srErr, devV, histV>>

\* pageProgram(addr, data) on its own, for the pieces Write may hand to it
\* (and a piece longer than Write's buffer)
PieceAddrs == {-1, 0, max24 - pageBuf + 1, max24, AddrSpace}
PieceLens == {1, 2, pageBuf, pageBuf + 1}

CallPageProgram(addr, n) ==
    /\ op = "none"
    /\ op' = "pageProgram"
    /\ ppAddr' = addr
    /\ ppData' = <<SrcRun(0, n)>>
    /\ stack' = <<"pageProgram">>
    /\ UNCHANGED <<ret, flashV, hostV, txV, readV, srcLen, srcPos, reads, wAddr, wN,
                   srcEOF, eraseV, bwV, devV, histV>>

\* the lengths of the streams given to Write
StreamLens == {0, 1} \cup { k * pageBuf + d : k \in 1..MaxPages, d \in {-1, 0, 1} }
\* the byte counts one r.Read may deliver when avail bytes are left
ReadCounts(avail) == { c \in {0, 100, Min(pageBuf, avail)} : c <= Min(pageBuf, avail) }

\* buf := [256]byte{}; addr := 0
CallWrite(len) ==
    /\ op = "none"
    /\ op' = "Write"
    /\ srcLen' = len /\ srcPos' = 0 /\ reads' = 0
    /\ wAddr' = 0 /\ wN' = 0 /\ srcEOF' = FALSE
    /\ stack' = <<"Write_loop">>
    /\ UNCHANGED <<ret, flashV, hostV, txV, readV, ppAddr, ppData, eraseV, bwV, devV,
                   histV>>

\* n, err := r.Read(buf[:])
\* if err != nil && err != io.EOF { return err }; if n == 0 { break }
\* f.pageProgram(addr, buf[:n])
\*   The reader delivers the next n bytes of its stream, at most len(buf) and
\*   at most what is left; it may report io.EOF with the last bytes or after
\*   them, and may fail.
WriteRead ==
    /\ At("Write_loop")
    /\ \E n \in ReadCounts(srcLen - srcPos), e \in {"nil", "EOF", "errReader"} :
         /\ e = "EOF" => srcPos + n = srcLen
         /\ n > 0 => reads < MaxReads
         /\ wN' = n
         /\ srcEOF' = (srcEOF \/ e = "EOF")
         /\ IF e # "nil" /\ e # "EOF"
            THEN /\ Return(e)
                 /\ UNCHANGED <<srcPos, reads, ppAddr, ppData>>
            ELSE IF n = 0
            THEN /\ Return("nil")
                 /\ UNCHANGED <<srcPos, reads, ppAddr, ppData>>
            ELSE /\ srcPos' = srcPos + n
                 /\ reads' = reads + 1
                 /\ ppAddr' = wAddr
                 /\ ppData' = <<SrcRun(srcPos, n)>>
                 /\ Call("pageProgram", "Write_pp")
                 /\ UNCHANGED ret
    /\ UNCHANGED <<op, flashV, hostV, txV, readV, srcLen, wAddr, eraseV, bwV, devV, histV>>

\* WriteNext advancing the address by a whole page
WriteNext_AddrByPage ==
    /\ At("Write_pp")
    /\ IF ret # "nil"
       THEN Return(ret) /\ UNCHANGED wAddr
       ELSE wAddr' = wAddr + pageBuf /\ Goto("Write_loop") /\ UNCHANGED ret
    /\ LocalsDie
    /\ UNCHANGED <<op, flashV, hostV, csLevel, readV, srcLen, srcPos, reads, wN, srcEOF,
                   ppAddr, ppData, eraseV, bwInterval, bwTimeout, devV, histV>>

\* if err := f.pageProgram(...); err != nil { return err }; addr += n
WriteNext ==
    /\ At("Write_pp")
    /\ IF ret # "nil"
       THEN Return(ret) /\ UNCHANGED wAddr
       ELSE wAddr' = wAddr + wN /\ Goto("Write_loop") /\ UNCHANGED ret
    /\ LocalsDie
    /\ UNCHANGED <<op, flashV, hostV, csLevel, readV, srcLen, srcPos, reads, wN, srcEOF,
                   ppAddr, ppData, eraseV, bwInterval, bwTimeout, devV, histV>>

(***************************************************************************)
(* Flash.Erase4KB, Flash.Erase64KB, Flash.EraseChip, Flash.Erase           *)
(***************************************************************************)
EraseAddrs == {0, subsectorSize, max24 - subsectorSize + 1, AddrSpace + subsectorSize}

CallErase4KB(addr) ==
    /\ op = "none"
    /\ op' = "Erase4KB"
    /\ eAddr' = addr
    /\ stack' = <<"Erase4KB">>
    /\ UNCHANGED <<ret, flashV, hostV, txV, readV, writeV, erBase, erSize, erAddr,
                   erRemaining, steps, bwV, devV, histV>>

\* if err := f.writeEnable(); err != nil { return err }
Erase4KB ==
    /\ At("Erase4KB")
    /\ Call("writeEnable", "Erase4KB_we")
    /\ UNCHANGED <<op, ret, flashV, hostV, txV, readV, writeV, eraseV, bwV, devV, histV>>

Erase4KBFrame ==
    /\ At("Erase4KB_we")
    /\ IF ret # "nil"
       THEN Return(ret) /\ UNCHANGED buf
       ELSE /\ buf' = AddrFrame(flashCmdErase4KB, eAddr, <<>>)
            /\ Call("tx", "Erase4KB_tx")
            /\ UNCHANGED ret
    /\ UNCHANGED <<op, flashV, hostV, txErr, csLevel, txTrace, readV, writeV, eraseV,
                   bwV, devV, histV>>

\* return f.BusyWait(50*time.Millisecond, f.tErase4KB())
Erase4KBWait ==
    /\ At("Erase4KB_tx")
    /\ IF ret # "nil"
       THEN Return(ret) /\ UNCHANGED <<bwInterval, bwTimeout>>
       ELSE /\ bwInterval' = 50000
            /\ bwTimeout' = tErase4KB
            /\ Goto("BusyWait")
            /\ UNCHANGED ret
    /\ UNCHANGED <<op, flashV, hostV, txV, readV, writeV, eraseV, timer, tick, polls,
                   sr, lastSR, srErr, devV, histV>>

CallErase64KB(addr) ==
    /\ op = "none"
    /\ op' = "Erase64KB"
    /\ eAddr' = addr
    /\ stack' = <<"Erase64KB">>
    /\ UNCHANGED <<ret, flashV, hostV, txV, readV, writeV, erBase, erSize, erAddr,
                   erRemaining, steps, bwV, devV, histV>>

Erase64KB ==
    /\ At("Erase64KB")
    /\ Call("writeEnable", "Erase64KB_we")
    /\ UNCHANGED <<op, ret, flashV, hostV, txV, readV, writeV, eraseV, bwV, devV, histV>>

Erase64KBFrame ==
    /\ At("Erase64KB_we")
    /\ IF ret # "nil"
       THEN Return(ret) /\ UNCHANGED buf
       ELSE /\ buf' = AddrFrame(flashCmdErase64KB, eAddr, <<>>)
            /\ Call("tx", "Erase64KB_tx")
            /\ UNCHANGED ret
    /\ UNCHANGED <<op, flashV, hostV, txErr, csLevel, txTrace, readV, writeV, eraseV,
                   bwV, devV, histV>>

\* Erase64KBWait returning without the BusyWait
Erase64KBWait_NoWait ==
    /\ At("Erase64KB_tx")
    /\ Return(ret)
    /\ UNCHANGED <<op, flashV, hostV, txV, readV, writeV, eraseV, bwV, devV, histV>>

\* return f.BusyWait(100*time.Millisecond, f.tErase64KB())
Erase64KBWait ==
    /\ At("Erase64KB_tx")
    /\ IF ret # "nil"
       THEN Return(ret) /\ UNCHANGED <<bwInterval, bwTimeout>>
       ELSE /\ bwInterval' = 100000
            /\ bwTimeout' = tErase64KB
            /\ Goto("BusyWait")
            /\ UNCHANGED ret
    /\ UNCHANGED <<op, flashV, hostV, txV, readV, writeV, eraseV, timer, tick, polls,
                   sr, lastSR, srErr, devV, histV>>

CallEraseChip ==
    /\ op = "none"
    /\ op' = "EraseChip"
    /\ stack' = <<"EraseChip">>
    /\ UNCHANGED <<ret, flashV, hostV, txV, readV, writeV, eraseV, bwV, devV, histV>>

EraseChip ==
    /\ At("EraseChip")
    /\ Call("writeEnable", "EraseChip_we")
    /\ UNCHANGED <<op, ret, flashV, hostV, txV, readV, writeV, eraseV, bwV, devV, histV>>

\* buf := []byte{flashCmdEraseChip}; f.tx(buf)
EraseChipFrame ==
    /\ At("EraseChip_we")
    /\ IF ret # "nil"
       THEN Return(ret) /\ UNCHANGED buf
       ELSE /\ buf' = Bytes(<<flashCmdEraseChip>>)
            /\ Call("tx", "EraseChip_tx")
            /\ UNCHANGED ret
    /\ UNCHANGED <<op, flashV, hostV, txErr, csLevel, txTrace, readV, writeV, eraseV,
                   bwV, devV, histV>>

\* return f.BusyWait(time.Second, f.tEraseChip())
EraseChipWait ==
    /\ At("EraseChip_tx")
    /\ IF ret # "nil"
       THEN Return(ret) /\ UNCHANGED <<bwInterval, bwTimeout>>
       ELSE /\ bwInterval' = 1000000
            /\ bwTimeout' = tEraseChip
            /\ Goto("BusyWait")
            /\ UNCHANGED ret
    /\ UNCHANGED <<op, flashV, hostV, txV, readV, writeV, eraseV, timer, tick, polls,
                   sr, lastSR, srErr, devV, histV>>

EraseBases == {0, subsectorSize, sectorSize + 1}
EraseTails == {0, 1, subsectorSize \div 2}
EraseSizes ==
    {-1} \cup
    { k * sectorSize + j * subsectorSize + d :
        k \in 0..MaxSectors, j \in 0..MaxSubsectors, d \in EraseTails }

\* remaining := size; addr := baseAddr
CallErase(baseAddr, size) ==
    /\ op = "none"
    /\ op' = "Erase"
    /\ erBase' = baseAddr /\ erSize' = size
    /\ erAddr' = baseAddr /\ erRemaining' = size
    /\ steps' = <<>>
    /\ stack' = <<"Erase_loop64">>
    /\ UNCHANGED <<ret, flashV, hostV, txV, readV, writeV, eAddr, bwV, devV, histV>>

\* EraseLoop64 giving Erase64KB the start of the sector that holds addr
EraseLoop64_AlignsDown ==
    /\ At("Erase_loop64")
    /\ IF erRemaining >= sectorSize
       THEN /\ eAddr' = erAddr - (erAddr % sectorSize)
            /\ steps' = Append(steps, [g |-> sectorSize, a |-> eAddr'])
            /\ Call("Erase64KB", "Erase_ret64")
       ELSE /\ Goto("Erase_loop4")
            /\ UNCHANGED <<eAddr, steps>>
    /\ UNCHANGED <<op, ret, flashV, hostV, txV, readV, writeV, erBase, erSize, erAddr,
                   erRemaining, bwV, devV, histV>>

\* EraseLoop64 leaving a remainder of exactly one sector to the 4KB loop
EraseLoop64_MoreThanSector ==
    /\ At("Erase_loop64")
    /\ IF erRemaining > sectorSize
       THEN /\ eAddr' = erAddr
            /\ steps' = Append(steps, [g |-> sectorSize, a |-> erAddr])
            /\ Call("Erase64KB", "Erase_ret64")
       ELSE /\ Goto("Erase_loop4")
            /\ UNCHANGED <<eAddr, steps>>
    /\ UNCHANGED <<op, ret, flashV, hostV, txV, readV, writeV, erBase, erSize, erAddr,
                   erRemaining, bwV, devV, histV>>

\* for remaining >= sectorSize { f.Erase64KB(addr)
EraseLoop64 ==
    /\ At("Erase_loop64")
    /\ IF erRemaining >= sectorSize
       THEN /\ eAddr' = erAddr
            /\ steps' = Append(steps, [g |-> sectorSize, a |-> erAddr])
            /\ Call("Erase64KB", "Erase_ret64")
       ELSE /\ Goto("Erase_loop4")
            /\ UNCHANGED <<eAddr, steps>>
    /\ UNCHANGED <<op, ret, flashV, hostV, txV, readV, writeV, erBase, erSize, erAddr,
                   erRemaining, bwV, devV, histV>>

\* EraseRet64 advancing the address by a subsector
EraseRet64_AddrBySubsector ==
    /\ At("Erase_ret64")
    /\ IF ret # "nil"
       THEN Return(ret) /\ UNCHANGED <<erAddr, erRemaining>>
       ELSE /\ erAddr' = erAddr + subsectorSize
            /\ erRemaining' = erRemaining - sectorSize
            /\ Goto("Erase_loop64")
            /\ UNCHANGED ret
    /\ LocalsDie
    /\ UNCHANGED <<op, flashV, hostV, csLevel, readV, writeV, erBase, erSize, eAddr,
                   steps, bwInterval, bwTimeout, devV, histV>>

\* if err != nil { return err }; addr += sectorSize; remaining -= sectorSize
EraseRet64 ==
    /\ At("Erase_ret64")
    /\ IF ret # "nil"
       THEN Return(ret) /\ UNCHANGED <<erAddr, erRemaining>>
       ELSE /\ erAddr' = erAddr + sectorSize
            /\ erRemaining' = erRemaining - sectorSize
            /\ Goto("Erase_loop64")
            /\ UNCHANGED ret
    /\ LocalsDie
    /\ UNCHANGED <<op, flashV, hostV, csLevel, readV, writeV, erBase, erSize, eAddr,
                   steps, bwInterval, bwTimeout, devV, histV>>

\* for remaining > 0 { f.Erase4KB(addr)        and, after the loop, return nil
EraseLoop4 ==
    /\ At("Erase_loop4")
    /\ IF erRemaining > 0
       THEN /\ eAddr' = erAddr
            /\ steps' = Append(steps, [g |-> subsectorSize, a |-> erAddr])
            /\ Call("Erase4KB", "Erase_ret4")
            /\ UNCHANGED ret
       ELSE /\ Return("nil")
            /\ UNCHANGED <<eAddr, steps>>
    /\ UNCHANGED <<op, flashV, hostV, txV, readV, writeV, erBase, erSize, erAddr,
                   erRemaining, bwV, devV, histV>>

\* EraseRet4 with the address left where it was
EraseRet4_AddrNotAdvanced ==
    /\ At("Erase_ret4")
    /\ IF ret # "nil"
       THEN Return(ret) /\ UNCHANGED erRemaining
       ELSE /\ erRemaining' = erRemaining - subsectorSize
            /\ Goto("Erase_loop4")
            /\ UNCHANGED ret
    /\ LocalsDie
    /\ UNCHANGED <<op, flashV, hostV, csLevel, readV, writeV, erBase, erSize, erAddr,
                   eAddr, steps, bwInterval, bwTimeout, devV, histV>>

\* if err != nil { return err }; addr += subsectorSize; remaining -= subsectorSize
EraseRet4 ==
    /\ At("Erase_ret4")
    /\ IF ret # "nil"
       THEN Return(ret) /\ UNCHANGED <<erAddr, erRemaining>>
       ELSE /\ erAddr' = erAddr + subsectorSize
            /\ erRemaining' = erRemaining - subsectorSize
            /\ Goto("Erase_loop4")
            /\ UNCHANGED ret
    /\ LocalsDie
    /\ UNCHANGED <<op, flashV, hostV, csLevel, readV, writeV, erBase, erSize, eAddr,
                   steps, bwInterval, bwTimeout, devV, histV>>

(***************************************************************************)
(* NewDevice and the process-wide hostInitialized flag.  Any number of     *)
(* goroutines call NewDevice, each again and again; the steps of different *)
(* callers interleave.                                                     *)
(***************************************************************************)
flashU == <<ctlV, flashV, txV, readV, writeV, eraseV, bwV, devV, histV, cmdV>>

NewDevice(g) ==
    /\ ndPc[g] = "idle"
    /\ ndPc' = [ndPc EXCEPT ![g] = "cas"]
    /\ UNCHANGED <<hostInitialized, hostInits, hostState, ndRet, flashU>>

\* NewDeviceCAS calling host.Init whatever the flag says
NewDeviceCAS_FlagIgnored(g) ==
    /\ ndPc[g] = "cas"
    /\ hostInitialized' = TRUE
    /\ ndPc' = [ndPc EXCEPT ![g] = "host.Init"]
    /\ UNCHANGED <<hostInits, hostState, ndRet, flashU>>

\* if hostInitialized.CompareAndSwap(false, true) {      (one atomic step)
NewDeviceCAS(g) ==
    /\ ndPc[g] = "cas"
    /\ IF hostInitialized = FALSE
       THEN /\ hostInitialized' = TRUE
            /\ ndPc' = [ndPc EXCEPT ![g] = "host.Init"]
       ELSE /\ ndPc' = [ndPc EXCEPT ![g] = "findFT2232H"]
            /\ UNCHANGED hostInitialized
    /\ UNCHANGED <<hostInits, hostState, ndRet, flashU>>

\* if _, err := host.Init(); err != nil { return nil, fmt.Errorf(...) }
NewDeviceHostInit(g) ==
    /\ ndPc[g] = "host.Init"
    /\ hostInits' = Min(hostInits + 1, 2)
    /\ \E ok \in BOOLEAN :
         IF ok
         THEN /\ hostState' = "ok"
              /\ ndPc' = [ndPc EXCEPT ![g] = "findFT2232H"]
              /\ UNCHANGED ndRet
         ELSE /\ hostState' = "failed"
              /\ ndPc' = [ndPc EXCEPT ![g] = "idle"]
              /\ ndRet' = [ndRet EXCEPT ![g] = "errHostInit"]
    /\ UNCHANGED <<hostInitialized, flashU>>

\* if err := d.findFT2232H(); err != nil { return nil, err }
NewDeviceFind(g) ==
    /\ ndPc[g] = "findFT2232H"
    /\ \E ok \in BOOLEAN :
         IF ok
         THEN /\ ndPc' = [ndPc EXCEPT ![g] = "connectSPI"]
              /\ UNCHANGED ndRet
         ELSE /\ ndPc' = [ndPc EXCEPT ![g] = "idle"]
              /\ ndRet' = [ndRet EXCEPT ![g] = "errFind"]
    /\ UNCHANGED <<hostInitialized, hostInits, hostState, flashU>>

\* if err := d.connectSPI(); err != nil { return nil, err }
\* d.Flash = NewFlash(d.conn, d.cs); return d, nil
NewDeviceConnect(g) ==
    /\ ndPc[g] = "connectSPI"
    /\ ndPc' = [ndPc EXCEPT ![g] = "idle"]
    /\ \E r \in {"ok", "errSPI"} : ndRet' = [ndRet EXCEPT ![g] = r]
    /\ UNCHANGED <<hostInitialized, hostInits, hostState, flashU>>

NextNewDevice ==
    \E g \in Callers :
        \/ NewDevice(g)
        \/ NewDeviceCAS(g)
        \/ NewDeviceHostInit(g)
        \/ NewDeviceFind(g)
        \/ NewDeviceConnect(g)

SpecNewDevice == Init /\ [][NextNewDevice]_vars

TxNext == TxAssert \/ TxTransfer \/ TxDeassert

NextRead ==
    \/ \E addr \in ReadAddrs, n \in ReadLens : CallRead(addr, n)
    \/ ReadLoop
    \/ ReadChunk
    \/ TxNext

SpecRead == Init /\ [][NextRead]_vars

NextBusyWait ==
    \/ \E interval \in Intervals, timeout \in Timeouts :
          CallBusyWait(interval, timeout)
    \/ BusyWaitNext
    \/ TxNext
    \/ DeviceReady

WriteSteps == writeEnable \/ pageProgram \/ pageProgramFrame \/ pageProgramWait
                \/ WriteRead \/ WriteNext

NextWrite ==
    \/ \E len \in StreamLens : CallWrite(len)
    \/ WriteSteps
    \/ BusyWaitNext
    \/ TxNext
    \/ DeviceReady

SpecWrite == Init /\ [][NextWrite]_vars

NextPageProgram ==
    \/ \E addr \in PieceAddrs, n \in PieceLens : CallPageProgram(addr, n)
    \/ writeEnable \/ pageProgram \/ pageProgramFrame \/ pageProgramWait
    \/ BusyWaitNext
    \/ TxNext
    \/ DeviceReady

SpecPageProgram == Init /\ [][NextPageProgram]_vars

EraseSteps ==
    \/ writeEnable
    \/ Erase4KB \/ Erase4KBFrame \/ Erase4KBWait
    \/ Erase64KB \/ Erase64KBFrame \/ Erase64KBWait
    \/ EraseChip \/ EraseChipFrame \/ EraseChipWait
    \/ EraseLoop64 \/ EraseRet64 \/ EraseLoop4 \/ EraseRet4

NextErase ==
    \/ \E baseAddr \in EraseBases, size \in EraseSizes : CallErase(baseAddr, size)
    \/ \E addr \in EraseAddrs : CallErase4KB(addr)
    \/ \E addr \in EraseAddrs : CallErase64KB(addr)
    \/ CallEraseChip
    \/ EraseSteps
    \/ BusyWaitNext
    \/ TxNext
    \/ DeviceReady

SpecErase == Init /\ [][NextErase]_vars

\* every public operation of Flash, called on a fresh controller
Next ==
    \/ CallPowerUp \/ PowerUpRet
    \/ CallPowerDown \/ PowerDownRet
    \/ CallReadID \/ ReadIDRet
    \/ \E addr \in ReadAddrs, n \in ReadLens : CallRead(addr, n)
    \/ ReadLoop \/ ReadChunk
    \/ \E len \in StreamLens : CallWrite(len)
    \/ WriteSteps
    \/ \E baseAddr \in EraseBases, size \in EraseSizes : CallErase(baseAddr, size)
    \/ \E addr \in EraseAddrs : CallErase4KB(addr)
    \/ \E addr \in EraseAddrs : CallErase64KB(addr)
    \/ CallEraseChip
    \/ EraseSteps
    \/ \E interval \in Intervals, timeout \in Timeouts :
          CallBusyWait(interval, timeout)
    \/ BusyWaitNext
    \/ TxNext
    \/ DeviceReady

Spec == Init /\ [][Next]_vars

SpecBusyWait == InitAnyDevice /\ [][NextBusyWait]_vars

NextStatusRegister ==
    \/ CallReadStatusRegister
    \/ ReadStatusRegister
    \/ ReadStatusRegisterRet
    \/ TxNext

SpecStatusRegister == InitAnyStatus /\ [][NextStatusRegister]_vars

\* The Go runtime delivers timer and ticker values, every call returns, and
\* select picks among its ready cases at random, so a case that is ready
\* again and again is taken in the end.
FairSpecBusyWait ==
    /\ SpecBusyWait
    /\ WF_vars(TxNext)
    /\ WF_vars(ReadStatusRegister \/ ReadStatusRegisterRet \/ BusyWait
                  \/ BusyWaitFast \/ BusyWaitPoll)
    /\ WF_vars(TimerFire)
    /\ WF_vars(TickerFire)
    /\ SF_vars(BusyWaitTimeout)
    /\ SF_vars(BusyWaitTick)

(***************************************************************************)
(* Several calls on one controller: identification and the timing queries  *)
(***************************************************************************)
\* the operation has returned; its caller goes on to the next call on the
\* same Flash (f.id and f.pr stay, the frames of the finished call are gone)
CallAgain ==
    /\ Done
    /\ op' = "none" /\ ret' = "nil"
    /\ LocalsDie
    /\ trace' = <<>> /\ slept' = <<>>
    /\ UNCHANGED <<stack, flashV, hostV, csLevel, readV, writeV, eraseV, bwInterval,
                   bwTimeout, devV>>

NextID ==
    \/ Len(ids) < MaxIDs /\ CallReadID
    \/ ReadIDRet
    \/ CallPowerUp \/ PowerUpRet
    \/ CallPowerDown \/ PowerDownRet
    \/ TxNext
    \/ CallAgain

SpecID == Init /\ [][NextID]_vars

\* identification followed by the program and erase steps, one call after
\* the other on the same controller
NextIdentified ==
    \/ Len(ids) < MaxIDs /\ CallReadID
    \/ ReadIDRet
    \/ CallPageProgram(0, 1)
    \/ CallErase4KB(0)
    \/ CallErase64KB(0)
    \/ CallEraseChip
    \/ writeEnable \/ pageProgram \/ pageProgramFrame \/ pageProgramWait
    \/ Erase4KB \/ Erase4KBFrame \/ Erase4KBWait
    \/ Erase64KB \/ Erase64KBFrame \/ Erase64KBWait
    \/ EraseChip \/ EraseChipFrame \/ EraseChipWait
    \/ BusyWaitNext
    \/ TxNext
    \/ DeviceReady
    \/ CallAgain

SpecIdentified == Init /\ [][NextIdentified]_vars

(***************************************************************************)
(* writeCommand: gice write [-e] -f file.  It runs the operations above    *)
(* one after the other on the Flash of the Device it opened; fatalf prints *)
(* and calls os.Exit(1), which ends the process without running the        *)
(* deferred calls.                                                         *)
(***************************************************************************)
FileSizes == {0, 1, pageBuf + 1, sectorSize + 1}

hostU == <<hostInitialized, hostInits, hostState, ndPc, ndRet>>
\* a statement of writeCommand itself: the Flash and the host stay as they are
WcOnly == UNCHANGED <<ctlV, flashV, hostU, txV, readV, writeV, eraseV, bwV, devV, slept>>
\* the Flash operation writeCommand called has returned
WcReturned(o) == wcPc = o /\ Done /\ op = o
\* writeCommand takes the result and goes on: the frames of the call are gone
WcResume ==
    /\ op' = "none" /\ ret' = "nil"
    /\ LocalsDie
    /\ UNCHANGED <<stack, flashV, hostU, csLevel, readV, writeV, eraseV, bwInterval,
                   bwTimeout, devV, slept>>
\* fatalf / fatalUsage: fmt.Fprintf(os.Stderr, ...); os.Exit(code)
Fatal(code) ==
    /\ wcPc' = "exited" /\ exit' = code
    /\ UNCHANGED <<bulkErase, input, fileSize, defers, reset, trace>>
WcMark(e) == Append(trace, [e |-> e, f |-> <<>>])

\* fs.Parse(args); if filename == "" && !bulkErase { fatalUsage(...) }
\* input, err = os.Open(filename); defer input.Close()
WcStart ==
    /\ wcPc = "idle" /\ op = "none"
    /\ \E e \in BOOLEAN, named \in BOOLEAN, size \in FileSizes, opened \in BOOLEAN :
         /\ bulkErase' = e
         /\ IF ~named /\ ~e
            THEN /\ wcPc' = "exited" /\ exit' = "2"
                 /\ UNCHANGED <<input, fileSize, defers>>
            ELSE IF named /\ ~opened
            THEN /\ wcPc' = "exited" /\ exit' = "1"
                 /\ UNCHANGED <<input, fileSize, defers>>
            ELSE /\ input' = named
                 /\ fileSize' = IF named THEN size ELSE 0
                 /\ defers' = IF named THEN <<"input.Close">> ELSE <<>>
                 /\ wcPc' = "NewDevice"
                 /\ UNCHANGED exit
    /\ UNCHANGED <<reset, trace>>
    /\ WcOnly

\* d, err := gice.NewDevice(): the steps of NewDevice, called once
WcNewDevice ==
    /\ wcPc = "NewDevice" /\ ndRet[1] = "none"
    /\ \/ NewDevice(1)
       \/ NewDeviceCAS(1)
       \/ NewDeviceHostInit(1)
       \/ NewDeviceFind(1)
       \/ NewDeviceConnect(1)

\* if err != nil { fatalf("%v", err) }
WcNewDeviceRet ==
    /\ wcPc = "NewDevice" /\ ndPc[1] = "idle" /\ ndRet[1] # "none"
    /\ IF ndRet[1] # "ok"
       THEN Fatal("1")
       ELSE /\ wcPc' = "ResetFPGA"
            /\ UNCHANGED <<bulkErase, input, fileSize, defers, reset, exit, trace>>
    /\ WcOnly

\* d.ResetFPGA(false); defer d.ResetFPGA(true)     (the error is dropped)
WcResetFPGA ==
    /\ wcPc = "ResetFPGA"
    /\ \E ok \in BOOLEAN : reset' = IF ok THEN "low" ELSE reset
    /\ defers' = Append(defers, "ResetFPGA(true)")
    /\ wcPc' = "PowerUp"
    /\ UNCHANGED <<bulkErase, input, fileSize, exit, trace>>
    /\ WcOnly

\* if err := d.Flash.PowerUp(); err != nil {
WcPowerUp == wcPc = "PowerUp" /\ CallPowerUp

\*     fatalf("flash power up failed: %v", err) }; defer d.Flash.PowerDown()
WcPowerUpRet ==
    /\ WcReturned("PowerUp")
    /\ IF ret # "nil"
       THEN Fatal("1")
       ELSE /\ defers' = Append(defers, "PowerDown")
            /\ wcPc' = IF bulkErase THEN "EraseChip" ELSE "Stat"
            /\ UNCHANGED <<bulkErase, input, fileSize, reset, exit, trace>>
    /\ WcResume

\* if bulkErase { if err := d.Flash.BulkErase(); err != nil {
WcBulkErase == wcPc = "EraseChip" /\ CallEraseChip

\* stat, err := input.(*os.File).Stat(); if err != nil { fatalf(...) }
WcStat ==
    /\ wcPc = "Stat"
    /\ \E ok \in BOOLEAN :
         IF ok
         THEN /\ wcPc' = "Erase"
              /\ UNCHANGED <<bulkErase, input, fileSize, defers, reset, exit, trace>>
         ELSE Fatal("1")
    /\ WcOnly

\* WcErase erasing from the second subsector
WcErase_FromSecondSubsector == wcPc = "Erase" /\ CallErase(subsectorSize, fileSize)

\* if err := d.Flash.Erase(0, int(stat.Size())); err != nil {
WcErase == wcPc = "Erase" /\ CallErase(0, fileSize)

\*     fatalf("bulk erase flash failed: %v", err) / fatalf("erase failed: %v", err) }
WcEraseRet ==
    /\ WcReturned("EraseChip") \/ WcReturned("Erase")
    /\ IF ret # "nil"
       THEN Fatal("1")
       ELSE /\ wcPc' = IF input THEN "Write" ELSE "PowerDown"
            /\ UNCHANGED <<bulkErase, input, fileSize, defers, reset, exit, trace>>
    /\ WcResume

\* if input != nil { if err := d.Flash.Write(input); err != nil {
WcWrite == wcPc = "Write" /\ CallWrite(fileSize)

\*     fatalf("write flash failed: %v", err) } }
WcWriteRet ==
    /\ WcReturned("Write")
    /\ IF ret # "nil"
       THEN Fatal("1")
       ELSE /\ wcPc' = "PowerDown"
            /\ UNCHANGED <<bulkErase, input, fileSize, defers, reset, exit, trace>>
    /\ WcResume

\* writeCommand returns: the deferred d.Flash.PowerDown() runs first
WcDeferPowerDown == wcPc = "PowerDown" /\ CallPowerDown

\* PowerDown has returned (its error is dropped); then the deferred
\* d.ResetFPGA(true) and input.Close() run, main returns and the process ends
WcDeferRest ==
    /\ WcReturned("PowerDown")
    /\ \E ok \in BOOLEAN : reset' = IF ok THEN "high" ELSE reset
    /\ trace' = Append(WcMark("PowerDown()"), [e |-> "ResetFPGA(true)", f |-> <<>>])
    /\ wcPc' = "exited" /\ exit' = "0"
    /\ UNCHANGED <<bulkErase, input, fileSize, defers>>
    /\ WcResume

NextCommand ==
    \/ WcStart
    \/ WcNewDevice \/ WcNewDeviceRet
    \/ WcResetFPGA
    \/ WcPowerUp \/ PowerUpRet \/ WcPowerUpRet
    \/ WcBulkErase \/ WcStat \/ WcErase \/ WcEraseRet
    \/ WcWrite \/ WcWriteRet
    \/ WcDeferPowerDown \/ PowerDownRet \/ WcDeferRest
    \/ writeEnable
    \/ Erase4KB \/ Erase4KBFrame \/ Erase4KBWait
    \/ Erase64KB \/ Erase64KBFrame \/ Erase64KBWait
    \/ EraseChip \/ EraseChipFrame \/ EraseChipWait
    \/ EraseLoop64 \/ EraseRet64 \/ EraseLoop4 \/ EraseRet4
    \/ pageProgram \/ pageProgramFrame \/ pageProgramWait
    \/ WriteRead \/ WriteNext
    \/ BusyWaitNext
    \/ TxNext
    \/ DeviceReady

SpecCommand == Init /\ [][NextCommand]_vars

(***************************************************************************)
(* Properties of Read                                                      *)
(***************************************************************************)
Ceil(a, b) == (a + b - 1) \div b

\* the reference: one unchunked read of the n bytes at [addr, addr+n)
Reference(addr, n) == IF n = 0 THEN <<>> ELSE <<MemRun(addr, n)>>

ReadInRange == rBase >= 0 /\ rBase + rN <= AddrSpace
IsTxRead(i) == trace[i].e = "tx" /\ ByteAt(trace[i].f, 0) = flashCmdRead

\* C1: a Read(addr, n) of a range inside the address space that met no
\* transport failure returns exactly n bytes, the flash contents at
\* [addr, addr+n), whatever number of transactions it took.
C1_ReadEqualsReference ==
    (Done /\ op = "Read" /\ ret = "nil" /\ ReadInRange)
        => /\ BLen(out) = rN
           /\ out = Reference(rBase, rN)

\* a read of more than one transaction has returned the reference bytes
C1_Witness ==
    /\ Done /\ op = "Read" /\ ret = "nil" /\ ReadInRange
    /\ rN > 2 * maxData
    /\ rBase > 0
    /\ out = Reference(rBase, rN)

\* the bytes the k-th transaction of the running Read has to fetch
ChunkLen(k) == Min(rN - (k - 1) * 65532, 65532)

\* C22: a Read(addr, n) that succeeds has issued ceil(n / 65532)
\* transactions, none for n = 0; the k-th frame is 4 + min(remaining, 65532)
\* bytes long, at most 65536, and addresses addr + 65532 * (k - 1); between
\* two transactions the output holds the flash bytes of the chunks read so
\* far, in order from offset 0, and is still zero behind them.
C22_ReadChunks ==
    op = "Read" =>
        /\ (Done /\ ret = "nil") => Len(trace) = Ceil(rN, 65532)
        /\ Len(trace) <= Ceil(rN, 65532)
        /\ \A k \in 1..Len(trace) :
              /\ IsTxRead(k)
              /\ BLen(trace[k].f) = 4 + ChunkLen(k)
              /\ BLen(trace[k].f) <= 65536
              /\ rBase + (k - 1) * 65532 \in 0..max24 =>
                    FrameAddr(trace[k].f) = rBase + (k - 1) * 65532
        /\ (At("Read_loop") /\ ReadInRange) =>
              /\ off = rN - remaining
              /\ off = Min(Len(trace) * 65532, rN)
              /\ out = Norm(Reference(rBase, off) \o <<Lit(0, rN - off)>>)

\* a Read of two full chunks and one byte from address 255 has returned
C22_Witness ==
    /\ Done /\ op = "Read" /\ ret = "nil"
    /\ rBase = 255 /\ rN = 2 * 65532 + 1
    /\ Len(trace) = 3
    /\ FrameAddr(trace[2].f) = 255 + 65532
    /\ BLen(trace[3].f) = 5

\* C14: a Read whose arguments are out of range (addr < 0 or addr + n beyond
\* the 24-bit space) puts no transaction on the bus and fails.
C14_ReadValidates ==
    (op = "Read" /\ ~ReadInRange) => (trace = <<>> /\ (Done => ret # "nil"))

\* the error the last tx call owes its caller ("nil" when it succeeded)
LastTxError ==
    IF txTrace[1] = "lowFail" THEN "errCSLow"
    ELSE IF txTrace[2] = "txFail" THEN "errTx"
    ELSE IF txTrace[3] = "highFail" THEN "errCSHigh"
    ELSE "nil"

\* C17: a Read that fails returns the error of its last transaction and no
\* data, whatever earlier chunks had delivered; the failed transaction is
\* the last one on the bus: the frames sent are those of the chunks copied
\* before it and, when chip-select could be asserted, the failed one.
C17_ReadFailsAtOnce ==
    (Done /\ op = "Read" /\ ret # "nil")
        => /\ out = <<>>
           /\ ret = LastTxError
           /\ off % maxData = 0 /\ off < rN
           /\ Len(trace) = off \div maxData
                               + (IF txTrace[1] = "lowFail" THEN 0 ELSE 1)
           /\ \A i \in 1..Len(trace) :
                 /\ IsTxRead(i)
                 /\ FrameAddr(trace[i].f) = (rBase + (i - 1) * maxData) % AddrSpace

\* the second transaction of a Read failed after the first had delivered
C17_Witness ==
    /\ Done /\ op = "Read" /\ ret = "errTx"
    /\ off = maxData /\ rN > 2 * maxData
    /\ Len(trace) = 2 /\ out = <<>>

(***************************************************************************)
(* Reading the trace                                                       *)
(***************************************************************************)
IsTx(i, cmd) == trace[i].e = "tx" /\ ByteAt(trace[i].f, 0) = cmd
IsWait(i) == trace[i].e = "BusyWait"
IsWaitRet(i) == trace[i].e = "BusyWaitRet"
Sent(cmd) == { i \in 1..Len(trace) : IsTx(i, cmd) }

(***************************************************************************)
(* Properties of Write                                                     *)
(***************************************************************************)
\* C2: a Write of a stream of L bytes that returns success has issued exactly
\* ceil(L/256) PageProgram commands, each directly after a WriteEnable and
\* each followed by a BusyWait call that returns before the next command.
C2_PageProgramPerPage ==
    (Done /\ op = "Write" /\ ret = "nil")
        => /\ Cardinality(Sent(flashCmdPageProgram)) = Ceil(srcLen, pageBuf)
           /\ \A i \in Sent(flashCmdPageProgram) :
                /\ i > 1 /\ IsTx(i - 1, flashCmdWriteEnable)
                /\ i + 2 <= Len(trace) /\ IsWait(i + 1) /\ IsWaitRet(i + 2)

IsPageProgram(x) == x.e = "tx" /\ ByteAt(x.f, 0) = flashCmdPageProgram
\* the PageProgram frames sent so far, in order
PageProgramFrames == SelectSeq(trace, IsPageProgram)
Payload(x) == BDrop(x.f, 4)
\* the payloads of a sequence of frames, one after the other
RECURSIVE Payloads(_)
Payloads(fs) == IF fs = <<>> THEN <<>> ELSE Payload(Head(fs)) \o Payloads(Tail(fs))

\* C23: the first PageProgram of Write has address 0, every later one the
\* sum of the lengths of the pieces before it; each payload is 1..256 bytes
\* long; the payloads one after the other are the bytes of the stream in the
\* order the reader delivered them, all of them once Write has succeeded.
C23_WriteInOrder ==
    op = "Write" =>
        LET pp == PageProgramFrames IN
        /\ \A k \in 1..Len(pp) :
              /\ BLen(Payload(pp[k])) \in 1..256
              /\ FrameAddr(pp[k].f) = BLen(Payloads(SubSeq(pp, 1, k - 1)))
        /\ Norm(Payloads(pp)) = Norm(<<SrcRun(0, BLen(Payloads(pp)))>>)
        /\ BLen(Payloads(pp)) <= srcPos
        /\ (Done /\ ret = "nil") => BLen(Payloads(pp)) = srcPos

\* a stream of 257 bytes delivered as 100, 100 and 57 bytes has been written
C23_Witness ==
    /\ Done /\ op = "Write" /\ ret = "nil"
    /\ srcLen = 257 /\ srcPos = 257
    /\ Len(PageProgramFrames) = 3
    /\ FrameAddr(PageProgramFrames[2].f) = 100
    /\ FrameAddr(PageProgramFrames[3].f) = 200
    /\ BLen(Payload(PageProgramFrames[3])) = 57

\* C32: when pageProgram rejects a piece with a range error (address
\* outside 0..0xFFFFFF or more than 256 bytes) nothing has been transmitted
\* for the piece: no WriteEnable frame, and the chip's write-enable latch is
\* as it was before the call (clear).
C32_RejectedPieceSendsNothing ==
    (Done /\ op = "pageProgram" /\ ret \in {"errRange", "errLen"}) =>
        /\ trace = <<>>
        /\ ~devWEL

\* C39: Write returns success only after the reader has reported end of
\* stream and every byte the reader delivered has been sent in a PageProgram
\* frame: a read of zero bytes with no error does not end the write.
C39_SuccessOnlyAfterEOF ==
    (Done /\ op = "Write" /\ ret = "nil") =>
        /\ srcEOF
        /\ BLen(Payloads(PageProgramFrames)) = srcPos

\* C31: every PageProgram frame of Write stays inside one 256-byte page of
\* the flash, (addr mod 256) + len(payload) <= 256, whatever byte counts the
\* reader delivers.
C31_PieceInOnePage ==
    op = "Write" =>
        \A k \in 1..Len(PageProgramFrames) :
            (FrameAddr(PageProgramFrames[k].f) % 256)
                + BLen(Payload(PageProgramFrames[k])) <= 256

PieceInRange ==
    /\ ppAddr >= 0 /\ ppAddr + BLen(ppData) <= AddrSpace
    /\ BLen(ppData) <= pageBuf

\* C15: for a piece whose address range [addr, addr+len) is not inside the
\* 24-bit space, or that is longer than 256 bytes, no PageProgram frame is
\* transmitted and the call fails.
C15_PieceValidated ==
    (op = "pageProgram" /\ ~PieceInRange)
        => /\ Sent(flashCmdPageProgram) = {}
           /\ Done => ret # "nil"

(***************************************************************************)
(* Properties of Erase                                                     *)
(***************************************************************************)
RoundUp(x, g) == Ceil(x, g) * g

\* the steps are laid end to end from `from` and stop exactly at `to`
Tiles(from, to) ==
    /\ (steps = <<>>) = (to = from)
    /\ steps # <<>> =>
         /\ steps[1].a = from
         /\ \A i \in 1..(Len(steps) - 1) : steps[i + 1].a = steps[i].a + steps[i].g
         /\ steps[Len(steps)].a + steps[Len(steps)].g = to

\* C3 as stated: the nominal ranges of the steps tile [base, base+size).
C3_TilesExactly ==
    (Done /\ op = "Erase" /\ ret = "nil") => Tiles(erBase, erBase + erSize)

\* C3: the nominal ranges of the steps of a successful Erase(base, size) tile
\* [base, base + size rounded up to a multiple of 4KB): no gap, no overlap,
\* and nothing outside that range.
C3_TilesRoundedUp ==
    (Done /\ op = "Erase" /\ ret = "nil")
        => Tiles(erBase, erBase + RoundUp(erSize, subsectorSize))

\* an Erase with steps of both sizes and a partial last subsector has returned
C3_Witness ==
    /\ Done /\ op = "Erase" /\ ret = "nil"
    /\ erSize % subsectorSize # 0
    /\ \E i, j \in 1..Len(steps) : steps[i].g = sectorSize /\ steps[j].g = subsectorSize
    /\ Tiles(erBase, erBase + RoundUp(erSize, subsectorSize))

\* the nominal range of step i: [a, a + g)
StepLo(i) == steps[i].a
StepHi(i) == steps[i].a + steps[i].g
RECURSIVE StepsLen(_)
\* the summed length of the first n steps
StepsLen(n) == IF n = 0 THEN 0 ELSE steps[n].g + StepsLen(n - 1)
\* where the steps end (base when there is none)
StepsEnd == IF steps = <<>> THEN erBase ELSE StepHi(Len(steps))

\* C34: after a successful Erase(base, size) with size >= 0 every piece of
\* [base, base+size) lies in the nominal range of a step, the steps end
\* less than 4KB after base+size, and their summed length is size rounded up
\* to a multiple of 4KB.
C34_CoversRoundedUp ==
    (Done /\ op = "Erase" /\ ret = "nil" /\ erSize >= 0) =>
        /\ \A k \in 0..(Ceil(erSize, 4096) - 1) :
              LET lo == erBase + 4096 * k
                  hi == Min(lo + 4096, erBase + erSize) IN
              \E i \in 1..Len(steps) : StepLo(i) <= lo /\ hi <= StepHi(i)
        /\ \A i \in 1..Len(steps) : erBase <= StepLo(i)
        /\ StepsEnd - (erBase + erSize) \in 0..4095
        /\ StepsLen(Len(steps)) = Ceil(erSize, 4096) * 4096

\* Erase(0x10001, 64KB + 4KB + 1) has returned: three steps that end 4095
\* bytes after base + size
C34_Witness ==
    /\ Done /\ op = "Erase" /\ ret = "nil"
    /\ erBase = 65537 /\ erSize = 65536 + 4096 + 1
    /\ Len(steps) = 3
    /\ StepsEnd = erBase + erSize + 4095

StepsOf(g) == { i \in 1..Len(steps) : steps[i].g = g }
\* the plan for a size: 64KB steps, then 4KB steps
Plan64(size) == IF size > 0 THEN size \div 65536 ELSE 0
Plan4(size) == IF size > 0 THEN Ceil(size % 65536, 4096) ELSE 0

\* C24: Erase(base, size) calls floor(size / 64KB) Erase64KB steps, all of
\* them before any Erase4KB step, then ceil((size mod 64KB) / 4KB) Erase4KB
\* steps and no more; it never starts more steps than that, so its loops
\* end, and it calls no step for size <= 0.
C24_GreedyPlan ==
    op = "Erase" =>
        /\ \A i \in 1..Len(steps) : steps[i].g \in {65536, 4096}
        /\ \A i, j \in 1..Len(steps) :
              (i < j /\ steps[j].g = 65536) => steps[i].g = 65536
        /\ Cardinality(StepsOf(65536)) <= Plan64(erSize)
        /\ Cardinality(StepsOf(4096)) <= Plan4(erSize)
        /\ StepsOf(4096) # {} => Cardinality(StepsOf(65536)) = Plan64(erSize)
        /\ (Done /\ ret = "nil") =>
              /\ Cardinality(StepsOf(65536)) = Plan64(erSize)
              /\ Cardinality(StepsOf(4096)) = Plan4(erSize)
        /\ erSize <= 0 => (steps = <<>> /\ trace = <<>>)

\* an Erase of two sectors, one subsector and one byte has returned
C24_Witness ==
    /\ Done /\ op = "Erase" /\ ret = "nil"
    /\ erSize = 2 * 65536 + 4096 + 1
    /\ Cardinality(StepsOf(65536)) = 2 /\ Cardinality(StepsOf(4096)) = 2
    /\ steps[3].g = 4096

EraseCmds == {flashCmdErase4KB, flashCmdErase64KB, flashCmdEraseChip}
IsEraseTx(i) == \E c \in EraseCmds : IsTx(i, c)
EraseSent == { i \in 1..Len(trace) : IsEraseTx(i) }
\* the erase command Erase issues for a step of granularity g
StepCmd(g) == IF g = sectorSize THEN flashCmdErase64KB ELSE flashCmdErase4KB
\* the i-th entry of trace that is an erase command
RECURSIVE NthErase(_, _)
NthErase(n, from) ==
    IF IsEraseTx(from) THEN (IF n = 1 THEN from ELSE NthErase(n - 1, from + 1))
    ELSE NthErase(n, from + 1)

\* C25: the first step of Erase has the address base, every later step the
\* previous step's address plus the previous step's granularity, and the
\* erase frame of a step carries that address; Erase(0x1000, 70KB) is one
\* 64KB step at 0x1000, then the 4KB steps at 0x11000 and 0x12000.
C25_AbsoluteStepAddresses ==
    op = "Erase" =>
        /\ steps # <<>> => steps[1].a = erBase
        /\ \A i \in 1..(Len(steps) - 1) : steps[i + 1].a = steps[i].a + steps[i].g
        /\ \A k \in 1..Cardinality(EraseSent) :
              steps[k].a \in 0..max24 =>
                  FrameAddr(trace[NthErase(k, 1)].f) = steps[k].a
        /\ (Done /\ ret = "nil" /\ erBase = 4096 /\ erSize = 70 * 1024) =>
              steps = <<[g |-> 65536, a |-> 4096], [g |-> 4096, a |-> 69632],
                        [g |-> 4096, a |-> 73728]>>

\* Erase(0x1000, 70KB) has returned, its last frame sent for address 0x12000
C25_Witness ==
    /\ Done /\ op = "Erase" /\ ret = "nil"
    /\ erBase = 4096 /\ erSize = 70 * 1024
    /\ Len(steps) = 3
    /\ Cardinality(EraseSent) = 3
    /\ FrameAddr(trace[NthErase(3, 1)].f) = 73728

TransportErrors == {"errCSLow", "errTx", "errCSHigh"}

\* C28: for a base that is not a multiple of 64KB and size >= 64KB the first
\* step of Erase is a 64KB step at base itself: the Erase64KB frame carries
\* the unaligned address, the sector the chip clears for it begins before
\* base, and Erase fails for no other reason than a transport error.
C28_UnalignedSectorErase ==
    (op = "Erase" /\ erSize >= 65536 /\ erBase % 65536 # 0) =>
        /\ steps # <<>> => steps[1] = [g |-> 65536, a |-> erBase]
        /\ EraseSent # {} =>
              LET f == trace[NthErase(1, 1)].f IN
              /\ ByteAt(f, 0) = 216
              /\ FrameAddr(f) = erBase
              /\ \E r \in ClearedBy(f) : r.lo < erBase /\ erBase < r.hi
        /\ Done => ret \in {"nil"} \cup TransportErrors

\* Erase(0x10001, 64KB) has returned success after one Erase64KB frame for
\* 0x10001, which clears the sector from 0x10000
C28_Witness ==
    /\ Done /\ op = "Erase" /\ ret = "nil"
    /\ erBase = 65537 /\ erSize = 65536
    /\ Cardinality(EraseSent) = 1
    /\ FrameAddr(trace[NthErase(1, 1)].f) = 65537
    /\ ClearedBy(trace[NthErase(1, 1)].f) = {[lo |-> 65536, hi |-> 131072]}

\* the ranges the chip clears when it runs every erase frame sent so far
ClearedByTrace ==
    UNION { ClearedBy(trace[i].f) : i \in EraseSent }
\* the 4KB blocks that hold bytes of [base, base+size)
BlocksOf(base, size) ==
    IF size <= 0 THEN {}
    ELSE { b * 4096 : b \in (base \div 4096)..((base + size - 1) \div 4096) }

\* C30: after a successful Erase(base, size) with base a multiple of 4KB,
\* every byte of [base, base+size) lies in a sector or subsector the chip
\* has cleared for one of the erase frames.
C30_RangeErased ==
    (Done /\ op = "Erase" /\ ret = "nil" /\ erBase % 4096 = 0) =>
        \A b \in BlocksOf(erBase, erSize) :
            \E r \in ClearedByTrace : r.lo <= b /\ b + 4096 <= r.hi

\* C29: during Write, Erase and EraseChip, whatever the length of the chip's
\* program/erase cycle, the only frames handed to conn.Tx while the chip is
\* busy are ReadStatusRegister frames: no WriteEnable, PageProgram or erase
\* frame is sent to a busy chip.
C29_NoCommandWhileBusy ==
    (op \in {"Write", "Erase", "EraseChip"} /\ At("tx_Tx")
        /\ ByteAt(buf, 0) # flashCmdReadStatusRegister) => ~devBusy

\* C4: on the bus every erase command comes directly after a WriteEnable and
\* is followed by a BusyWait call; a WriteEnable that is not the first entry
\* comes directly after the return of the previous BusyWait; the k-th erase
\* command of Erase is the one matching the k-th step.
C4_EraseSequence ==
    op \in {"Erase", "Erase4KB", "Erase64KB", "EraseChip"} =>
        /\ \A i \in 1..Len(trace) :
             /\ IsEraseTx(i) => i > 1 /\ IsTx(i - 1, flashCmdWriteEnable)
             /\ (IsEraseTx(i) /\ i < Len(trace)) => IsWait(i + 1)
             /\ IsWait(i) => i > 1 /\ IsEraseTx(i - 1)
             /\ (IsTx(i, flashCmdWriteEnable) /\ i > 1) => IsWaitRet(i - 1)
             /\ IsWaitRet(i) => i > 1 /\ IsWait(i - 1)
             /\ trace[i].e = "tx" =>
                  (IsEraseTx(i) \/ IsTx(i, flashCmdWriteEnable))
        /\ op = "Erase" =>
             /\ Cardinality(EraseSent) <= Len(steps)
             /\ \A k \in 1..Cardinality(EraseSent) :
                  IsTx(NthErase(k, 1), StepCmd(steps[k].g))
        /\ op = "EraseChip" => \A i \in EraseSent : IsTx(i, flashCmdEraseChip)
        /\ (Done /\ ret = "nil") =>
             /\ Cardinality(EraseSent) = (IF op = "Erase" THEN Len(steps) ELSE 1)
             /\ trace # <<>> => IsWaitRet(Len(trace))

\* a second erase step has been sent, after the first step's BusyWait returned
C4_Witness ==
    /\ op = "Erase"
    /\ Len(trace) = 6
    /\ IsTx(1, flashCmdWriteEnable) /\ IsTx(2, flashCmdErase64KB)
    /\ IsWait(3) /\ IsWaitRet(4)
    /\ IsTx(5, flashCmdWriteEnable) /\ IsTx(6, flashCmdErase4KB)

\* the logical addresses of the erase steps called so far
StepAddrs ==
    IF op = "Erase" THEN [k \in 1..Len(steps) |-> steps[k].a]
    ELSE IF op \in {"Erase4KB", "Erase64KB"} THEN <<eAddr>>
    ELSE <<>>

\* C16: the erase step for a logical address outside 0..0xFFFFFF transmits
\* no erase frame (its address bytes would be the low 24 bits of that
\* address); the step, and with it the operation, fails.
C16_NoAddressWraparound ==
    \A k \in 1..Len(StepAddrs) :
        (StepAddrs[k] < 0 \/ StepAddrs[k] > max24)
            => /\ Cardinality(EraseSent) < k
               /\ Done => ret # "nil"

(***************************************************************************)
(* Failures inside Write and Erase                                         *)
(***************************************************************************)
\* a step (pageProgram, Erase64KB, Erase4KB) has just returned to its loop
StepReturned == At("Write_pp") \/ At("Erase_ret64") \/ At("Erase_ret4")
\* the steps the operation has called
StepsCalled == IF op = "Write" THEN reads ELSE Len(steps)
\* the command frames of the steps on the bus
StepFrames == IF op = "Write" THEN Sent(flashCmdPageProgram) ELSE EraseSent

\* C18: a transport error inside step k of Write or Erase is what the step
\* returns, and the operation returns it without a further frame: when the
\* operation has failed, every earlier step has its one WriteEnable and its
\* one command frame on the bus, step k has at most one of each, and no
\* later step has any.
C18_NoRetryNoRollback ==
    op \in {"Write", "Erase"} =>
        /\ (StepReturned /\ srErr # "nil") => ret = srErr
        /\ (Done /\ ret \notin {"nil", "errReader"}) =>
              /\ Cardinality(StepFrames) \in {StepsCalled - 1, StepsCalled}
              /\ Cardinality(Sent(flashCmdWriteEnable)) \in
                    {StepsCalled - 1, StepsCalled}
              /\ Cardinality(StepFrames) <= Cardinality(Sent(flashCmdWriteEnable))

(***************************************************************************)
(* Properties of BusyWait (called directly, chip in any state)             *)
(***************************************************************************)
BusyWaitReturned == Done /\ op = "BusyWait"

\* C5: BusyWait returns success only when its most recent status read showed
\* the busy bit clear, or when timeout > 0 and the timer has fired; until then
\* the caller stays inside BusyWait.
C5_SuccessOnlyReadyOrTimeout ==
    (BusyWaitReturned /\ ret = "nil")
        => \/ lastSR = "ready"
           \/ bwTimeout > 0 /\ timer = "fired"

\* BusyWait has returned success on the timer with the chip still busy
C5_Witness ==
    /\ BusyWaitReturned /\ ret = "nil"
    /\ lastSR = "busy" /\ bwTimeout > 0 /\ timer = "fired" /\ devBusy

\* C6: with timeout = 0 the timer never fires, and BusyWait returns success
\* only after a status read with the busy bit clear, the chip then being
\* ready, however many polls that takes.
C6_ZeroTimeoutWaitsForReady ==
    (op = "BusyWait" /\ bwTimeout = 0)
        => /\ timer # "fired"
           /\ (Done /\ ret = "nil") => (lastSR = "ready" /\ ~devBusy)

\* BusyWait(interval, 0) has returned success after MaxPolls polls
C6_Witness ==
    /\ BusyWaitReturned /\ ret = "nil" /\ bwTimeout = 0
    /\ polls = MaxPolls /\ lastSR = "ready"

\* C26: a BusyWait that returns while its last status read showed the chip
\* busy has returned because its timer (timeout > 0) fired, and it returns
\* success, the value it also returns when the chip was read ready.
C26_TimeoutIsSuccess ==
    BusyWaitReturned =>
        /\ lastSR = "busy" => (ret = "nil" /\ timer = "fired" /\ bwTimeout > 0)
        /\ lastSR = "ready" => ret = "nil"

\* the timer fired before the first tick: BusyWait has returned success with
\* the chip busy
C26_Witness ==
    /\ BusyWaitReturned /\ ret = "nil"
    /\ timer = "fired" /\ polls = 0 /\ lastSR = "busy" /\ devBusy

\* C27: BusyWait does not return because of the timeout while a tick is
\* waiting to be polled: a BusyWait that returned on its timer, the last
\* status read showing the chip busy, has left no tick behind.
C27_PollBeforeTimeout ==
    (BusyWaitReturned /\ timer = "fired" /\ lastSR = "busy") => ~tick

\* C7: when a status read of BusyWait failed, BusyWait returns that error.
C7_StatusReadErrorReturned ==
    (BusyWaitReturned /\ srErr # "nil") => ret = srErr

\* C8: BusyWait with timeout > 0 returns whatever the chip does; with
\* timeout = 0 it returns once the chip is not busy.
C8_BusyWaitReturns ==
    /\ (op = "BusyWait" /\ bwTimeout > 0) ~> Done
    /\ (op = "BusyWait" /\ bwTimeout = 0 /\ ~devBusy) ~> Done

\* BusyWait with a timeout has returned although the chip never got ready
C8_Witness ==
    /\ BusyWaitReturned /\ bwTimeout > 0 /\ devBusy
    /\ polls = MaxPolls /\ lastSR = "busy"

(***************************************************************************)
(* Properties of tx                                                        *)
(***************************************************************************)
InTx == At("tx_Tx") \/ At("tx_defer")
\* the labels at which a caller resumes after f.tx
TxReturnsTo == {"PowerUp_tx", "PowerDown_tx", "ReadID_tx", "Read_tx",
                "ReadStatusRegister_tx", "pageProgram_we", "pageProgram_tx",
                "Erase4KB_we", "Erase4KB_tx", "Erase64KB_we", "Erase64KB_tx",
                "EraseChip_we", "EraseChip_tx"}
AfterTx == stack # <<>> /\ Head(stack) \in TxReturnsTo

\* C9: a transaction runs only with chip-select asserted by this tx call and
\* never after a failed assertion; once assertion succeeded, tx returns only
\* after it has tried the deassertion, also when the transaction failed.
C9_ChipSelectBracket ==
    /\ At("tx_Tx") => (csLevel = "low" /\ txTrace = <<"low">>)
    /\ \A i \in 1..Len(txTrace) :
         txTrace[i] \in {"tx", "txFail"} => (i = 2 /\ txTrace[1] = "low")
    /\ (~InTx /\ txTrace # <<>>) =>
         \/ txTrace = <<"lowFail">>
         \/ /\ Len(txTrace) = 3
            /\ txTrace[1] = "low"
            /\ txTrace[2] \in {"tx", "txFail"}
            /\ txTrace[3] \in {"high", "highFail"}

\* tx has returned after a failed transaction and a deassertion
C9_Witness ==
    /\ AfterTx /\ op = "Write"
    /\ txTrace = <<"low", "txFail", "high">> /\ csLevel = "high"

\* the error tx owes its caller, from what happened
TxOutcome(t) ==
    IF t[1] = "lowFail" THEN "errCSLow"
    ELSE IF t[2] = "txFail" THEN "errTx"
    ELSE IF t[3] = "highFail" THEN "errCSHigh"
    ELSE "nil"

\* C10: tx returns the assertion error if assertion failed, else the
\* transaction's error if it failed, else the deassertion error if that
\* failed, else no error.
C10_TxError == AfterTx => ret = TxOutcome(txTrace)

\* transaction and deassertion both failed: the transaction's error is returned
C10_Witness ==
    /\ AfterTx
    /\ txTrace = <<"low", "txFail", "highFail">>
    /\ ret = "errTx"

(***************************************************************************)
(* Properties of ReadID and the timing queries                             *)
(***************************************************************************)
Fields == {"tRES1", "tDP", "tPP", "tErase4KB", "tErase64KB", "tEraseChip"}
\* what the query of a field returns
Query(field) ==
    CASE field = "tRES1" -> tRES1
      [] field = "tDP" -> tDP
      [] field = "tPP" -> tPP
      [] field = "tErase4KB" -> tErase4KB
      [] field = "tErase64KB" -> tErase64KB
      [] field = "tEraseChip" -> tEraseChip
\* the maximum of a field over the known profiles, from the table's figures
MaxOfField(field) ==
    CASE field = "tRES1" -> 3
      [] field = "tDP" -> 3
      [] field = "tPP" -> 5000
      [] field = "tErase4KB" -> 800000
      [] field = "tErase64KB" -> 3000000
      [] field = "tEraseChip" -> 200000000
Known(i) == i \in DOMAIN knownFlash

\* C11: each timing query returns the identified chip's profile value when
\* the stored identity is in the table, and the maximum of the field over all
\* profiles when no ReadID has succeeded yet or when the first ReadID of the
\* controller stored an identity that is not in the table.
C11_TimingQueries ==
    \A field \in Fields :
        /\ Known(id) => Query(field) = knownFlash[id][field]
        /\ ids = <<>> => Query(field) = MaxOfField(field)
        /\ (Len(ids) = 1 /\ ~Known(id)) => Query(field) = MaxOfField(field)

\* PowerUp after the identification of the Winbond chip has slept its tRES1
C11_Witness ==
    /\ Done /\ op = "PowerUp" /\ ret = "nil"
    /\ ids = <<flashIDWinbondW25Q128>>
    /\ slept = <<3>>
    /\ tEraseChip = 200000000

\* the poll interval each operation passes to BusyWait, in microseconds
PollInterval ==
    [o \in {"pageProgram", "Erase4KB", "Erase64KB", "EraseChip"} |->
        CASE o = "pageProgram" -> 100
          [] o = "Erase4KB" -> 50000
          [] o = "Erase64KB" -> 100000
          [] o = "EraseChip" -> 1000000]

\* C35: before any ReadID, after the identification of a known chip and
\* after that of an unknown chip, the timeout pageProgram, Erase4KB,
\* Erase64KB and EraseChip pass to BusyWait is positive and greater than the
\* poll interval of the operation (100us, 50ms, 100ms, 1s).
C35_TimeoutAboveInterval ==
    (op \in DOMAIN PollInterval /\ At("BusyWait")) =>
        /\ bwInterval = PollInterval[op]
        /\ bwTimeout > 0
        /\ bwTimeout > bwInterval

\* Erase4KB calls BusyWait on a controller whose last ReadID met an unknown
\* chip after the Winbond chip
C35_Witness ==
    /\ op = "Erase4KB" /\ At("BusyWait")
    /\ ids = <<flashIDWinbondW25Q128, <<194, 32, 24>>>>
    /\ bwInterval = 50000 /\ bwTimeout = 400000

\* C36: in every identity state each of the six resolved timing values is
\* positive, so PowerUp and PowerDown sleep a nonzero settle time after
\* their command.
C36_TimingPositive ==
    /\ \A field \in Fields : Query(field) > 0
    /\ \A i \in 1..Len(slept) : slept[i] > 0

\* C12: the timing queries follow the identity the most recent ReadID
\* stored: when it is not in the table, every query returns the maximum over
\* the known profiles, whatever earlier ReadID calls had returned.
C12_LatestIdentityDecides ==
    (ids # <<>> /\ ~Known(id)) => \A field \in Fields : Query(field) = MaxOfField(field)

\* C13: ReadID sends the opcode and 3 zero bytes in one transaction; when the
\* transaction succeeds it returns no error, stores the response bytes 1..3
\* as the identity, and names it from the table ("" when it is not there);
\* the Micron identity gets its name and its page-program time.
C13_ReadID ==
    (Done /\ op = "ReadID") =>
        /\ trace # <<>> =>
              trace = <<[e |-> "tx", f |-> Bytes(<<flashCmdReadID, 0, 0, 0>>)]>>
        /\ (ret = "nil") = (txTrace = <<"low", "tx", "high">>)
        /\ ret = "nil" =>
              /\ id = <<ByteAt(buf, 1), ByteAt(buf, 2), ByteAt(buf, 3)>>
              /\ ids[Len(ids)] = id
              /\ name = (IF Known(id) THEN knownFlash[id].name ELSE "")
              /\ id = <<32, 186, 22>> => (name = "Micron N25Q 32Mb" /\ tPP = 5000)
        /\ ret # "nil" => name = ""

\* ReadID has identified the Micron chip, then met a chip it does not know
C13_Witness ==
    /\ Done /\ op = "ReadID" /\ ret = "nil"
    /\ ids = <<flashIDMicronN25Q32, <<194, 32, 24>>>>
    /\ name = ""

(***************************************************************************)
(* Properties of NewDevice                                                 *)
(***************************************************************************)
\* C19: host.Init runs at most once in the life of the process, however many
\* NewDevice calls are made and however the calls of concurrent callers
\* interleave; only the caller that switched the flag from false to true
\* runs it.
C19_HostInitAtMostOnce ==
    /\ hostInits <= 1
    /\ Cardinality({ g \in Callers : ndPc[g] = "host.Init" }) <= 1
    /\ (hostInits = 1 \/ \E g \in Callers : ndPc[g] = "host.Init") => hostInitialized

\* every caller has made a NewDevice call that went past the flag and
\* returned, and is inside its next call; host.Init has run once
C19_Witness ==
    /\ hostInits = 1
    /\ \A g \in Callers : ndRet[g] = "ok" /\ ndPc[g] = "findFT2232H"
    /\ MaxCallers >= 2

(***************************************************************************)
(* Properties of StatusRegister                                            *)
(***************************************************************************)
Weight(flag, w) == IF flag THEN w ELSE 0

\* C33: a NewDevice call finds and opens the FTDI device only after host.Init
\* has completed successfully in the process, also when an earlier call's
\* host.Init failed and when another call is still inside host.Init.
C33_OpenOnlyAfterHostInit ==
    \A g \in Callers :
        ndPc[g] \in {"findFT2232H", "connectSPI"} => hostState = "ok"

(***************************************************************************)
(* Properties of writeCommand                                              *)
(***************************************************************************)
\* the addresses the steps of Erase name, or the whole chip after EraseChip
InErasedRange(a) ==
    IF bulkErase THEN Sent(flashCmdEraseChip) # {}
    ELSE \E i \in 1..Len(steps) : StepLo(i) <= a /\ a < StepHi(i)

\* C37: in writeCommand with an input file the erase call (EraseChip with
\* -e, otherwise Erase(0, fileSize)) has returned before the first
\* PageProgram frame is sent, no erase frame follows a PageProgram frame,
\* and the first and the last address of every PageProgram frame lie in the
\* nominal range of an erase step of the run (the reader delivers no more
\* than fileSize bytes).
C37_EraseBeforeProgram ==
    (wcPc # "idle" /\ Sent(flashCmdPageProgram) # {}) =>
        /\ input
        /\ wcPc \in {"Write", "PowerDown", "exited"}
        /\ \A p \in Sent(flashCmdPageProgram) :
              /\ \A e \in EraseSent : e < p
              /\ EraseSent # {} /\ p > 1
              /\ InErasedRange(FrameAddr(trace[p].f))
              /\ InErasedRange(FrameAddr(trace[p].f) + BLen(Payload(trace[p])) - 1)

\* gice write -f file with a file of 257 bytes has ended with status 0: one
\* Erase4KB step for [0, 4096), then two PageProgram frames, the second at
\* address 256
C37_Witness ==
    /\ wcPc = "exited" /\ exit = "0"
    /\ ~bulkErase /\ input /\ fileSize = 257 /\ srcPos = 257
    /\ steps = <<[g |-> 4096, a |-> 0]>>
    /\ Len(PageProgramFrames) = 2
    /\ FrameAddr(PageProgramFrames[2].f) = 256

Registered(d) == \E i \in 1..Len(defers) : defers[i] = d
Marked(e) == \E i \in 1..Len(trace) : trace[i].e = e

\* C38: once writeCommand has put the FPGA into reset and powered the flash
\* up, the process does not end, whether the erase or the write failed or
\* all went well, before PowerDown has been called and the FPGA reset line
\* has been released with ResetFPGA(true).
C38_CleanupOnEveryExit ==
    (wcPc = "exited" /\ Registered("PowerDown")) =>
        /\ Marked("PowerDown()")
        /\ Marked("ResetFPGA(true)")

\* C20: the status byte ReadStatusRegister returns is the one the chip sent,
\* and for each of its 256 values the eight flags are its bits: Busy bit 0,
\* WriteEnabled bit 1, BlockProtect0..2 bits 2..4, TopBottom bit 5,
\* SectorProtect bit 6, StatusRegisterProtect bit 7 (the byte is the sum of
\* the weights of the flags that are set); 1 is busy and nothing else, 2 is
\* write-enabled and nothing else.
C20_StatusDecoding ==
    (Done /\ op = "ReadStatusRegister" /\ ret = "nil") =>
        /\ sr = StatusByte
        /\ Busy(sr) = devBusy /\ WriteEnabled(sr) = devWEL
        /\ sr = Weight(Busy(sr), 1) + Weight(WriteEnabled(sr), 2)
                + Weight(BlockProtect0(sr), 4) + Weight(BlockProtect1(sr), 8)
                + Weight(BlockProtect2(sr), 16) + Weight(TopBottom(sr), 32)
                + Weight(SectorProtect(sr), 64)
                + Weight(StatusRegisterProtect(sr), 128)
        /\ sr = 1 => (Busy(sr) /\ ~WriteEnabled(sr) /\ ~BlockProtect0(sr)
                        /\ ~BlockProtect1(sr) /\ ~BlockProtect2(sr)
                        /\ ~TopBottom(sr) /\ ~SectorProtect(sr)
                        /\ ~StatusRegisterProtect(sr))
        /\ sr = 2 => (WriteEnabled(sr) /\ ~Busy(sr))

\* the byte 0b10100101 has been read and decoded
C20_Witness ==
    /\ Done /\ op = "ReadStatusRegister" /\ ret = "nil"
    /\ sr = 165
    /\ Busy(sr) /\ BlockProtect0(sr) /\ TopBottom(sr) /\ StatusRegisterProtect(sr)
    /\ ~WriteEnabled(sr) /\ ~BlockProtect1(sr)

(***************************************************************************)
(* Properties of the frames                                                *)
(***************************************************************************)
\* the function that called the running tx, by the label it resumes at
TxCaller == stack[2]
\* the opcode of the command the caller of tx sends, from the command table
OpcodeOf(l) ==
    CASE l = "PowerUp_tx" -> 171                    \* 0xAB
      [] l = "PowerDown_tx" -> 185                  \* 0xB9
      [] l = "ReadID_tx" -> 159                     \* 0x9F
      [] l = "Read_tx" -> 3
      [] l \in {"pageProgram_we", "Erase4KB_we", "Erase64KB_we", "EraseChip_we"} -> 6
      [] l = "pageProgram_tx" -> 2
      [] l = "Erase4KB_tx" -> 32                    \* 0x20
      [] l = "Erase64KB_tx" -> 216                  \* 0xD8
      [] l = "EraseChip_tx" -> 199                  \* 0xC7
      [] l = "ReadStatusRegister_tx" -> 5
\* the callers that send an address, and the address they were given
Addressed == {"Read_tx", "pageProgram_tx", "Erase4KB_tx", "Erase64KB_tx"}
AddressOf(l) ==
    CASE l = "Read_tx" -> rAddr
      [] l = "pageProgram_tx" -> ppAddr
      [] l \in {"Erase4KB_tx", "Erase64KB_tx"} -> eAddr

\* C21: the frame handed to the transport starts with the opcode of the
\* command being sent and, for Read, PageProgram, Erase4KB and Erase64KB with
\* an address in 0..0xFFFFFF, carries the address in bytes 1..3, high byte
\* first.
C21_FrameLayout ==
    At("tx_Tx") =>
        /\ ByteAt(buf, 0) = OpcodeOf(TxCaller)
        /\ (TxCaller \in Addressed /\ AddressOf(TxCaller) \in 0..16777215) =>
              /\ BLen(buf) >= 4
              /\ ByteAt(buf, 1) = AddressOf(TxCaller) \div 65536
              /\ ByteAt(buf, 2) = (AddressOf(TxCaller) \div 256) % 256
              /\ ByteAt(buf, 3) = AddressOf(TxCaller) % 256

\* the Erase64KB frame for address 0x010001 is about to be transferred
C21_Witness ==
    /\ At("tx_Tx") /\ TxCaller = "Erase64KB_tx"
    /\ eAddr = 65537
    /\ buf = Bytes(<<216, 1, 0, 1>>)

====
